---------------------------- MODULE Spec2Model ----------------------------
(***************************************************************************)
(* A model of the milk compiler back end: the amd64 move synthesis, the    *)
(* register pool, the code generation driver's register traffic, the type  *)
(* checker's scope handling and the symbol table.                          *)
(***************************************************************************)
EXTENDS Integers, Sequences, FiniteSets, TLC

VARIABLES
    buf,    \* Amd64.buf: the instructions emitted so far, in order
    used,   \* RegisterAllocator: the pool entries (indices) handed out
    call,   \* the operation that ran last, with its arguments and result
    pc,     \* position inside a multi-step operation ("idle" between them)
    ml,     \* the locals of a mov_local in progress
    regs,   \* the machine's register file while emitted code is executed
    tc,     \* the type checker: its call stack and the scope stack
    table,  \* SymbolTable.0
    ops,    \* the driver's live expression results (registers it holds)
    cg      \* CodeGen::compile: the program, the sections and the output file

vars == <<buf, used, call, pc, ml, regs, tc, table, ops, cg>>

(***************************************************************************)
(* Bounds of the model.                                                    *)
(***************************************************************************)
MaxBuf == 1
MaxN == 17
MaxDepth == 3
MaxBlocks == 3
WordBits == 4
MaxStmts == 3
MaxFields == 2
MaxItems == 3

(***************************************************************************)
(* Option<T>: None is the empty sequence, Some(x) the sequence <<x>>.      *)
(***************************************************************************)
None == <<>>
Some(x) == <<x>>

Sizes == {1, 2, 4, 8}

(***************************************************************************)
(* Registers. Register::new(byte, word, dword, qword).                     *)
(***************************************************************************)
Register_new(b, w, d, q) == [byte |-> b, word |-> w, dword |-> d, qword |-> q]

\* A pool that lists rdx in the place of rcx as well.
Amd64_pool_rdx_twice ==
    << Register_new("r15b", "r15w", "r15d", "r15"),
       Register_new("r14b", "r14w", "r14d", "r14"),
       Register_new("r13b", "r13w", "r13d", "r13"),
       Register_new("r12b", "r12w", "r12d", "r12"),
       Register_new("r11b", "r11w", "r11d", "r11"),
       Register_new("r10b", "r10w", "r10d", "r10"),
       Register_new("r9b", "r9w", "r9d", "r9"),
       Register_new("r8b", "r8w", "r8d", "r8"),
       Register_new("dl", "dx", "edx", "rdx"),
       Register_new("dl", "dx", "edx", "rdx"),
       Register_new("sil", "si", "esi", "rsi"),
       Register_new("dil", "di", "edi", "rdi") >>

\* A pool that leaves r10 out.
Amd64_pool_without_r10 ==
    << Register_new("r15b", "r15w", "r15d", "r15"),
       Register_new("r14b", "r14w", "r14d", "r14"),
       Register_new("r13b", "r13w", "r13d", "r13"),
       Register_new("r12b", "r12w", "r12d", "r12"),
       Register_new("r11b", "r11w", "r11d", "r11"),
       Register_new("r9b", "r9w", "r9d", "r9"),
       Register_new("r8b", "r8w", "r8d", "r8"),
       Register_new("cl", "cx", "ecx", "rcx"),
       Register_new("dl", "dx", "edx", "rdx"),
       Register_new("sil", "si", "esi", "rsi"),
       Register_new("dil", "di", "edi", "rdi") >>

Amd64_pool ==
    << Register_new("r15b", "r15w", "r15d", "r15"),
       Register_new("r14b", "r14w", "r14d", "r14"),
       Register_new("r13b", "r13w", "r13d", "r13"),
       Register_new("r12b", "r12w", "r12d", "r12"),
       Register_new("r11b", "r11w", "r11d", "r11"),
       Register_new("r10b", "r10w", "r10d", "r10"),
       Register_new("r9b", "r9w", "r9d", "r9"),
       Register_new("r8b", "r8w", "r8d", "r8"),
       Register_new("cl", "cx", "ecx", "rcx"),
       Register_new("dl", "dx", "edx", "rdx"),
       Register_new("sil", "si", "esi", "rsi"),
       Register_new("dil", "di", "edi", "rdi") >>

\* Register::from_size: the sub-view of a register that is `size` bytes wide.
from_size(register, size) ==
    CASE size = 1 -> register.byte
      [] size = 2 -> register.word
      [] size = 4 -> register.dword
      [] size = 8 -> register.qword

\* Amd64::size_name; any other size is unreachable!().
size_name(size) ==
    CASE size = 1 -> "byte ptr"
      [] size = 2 -> "word ptr"
      [] size = 4 -> "dword ptr"
      [] size = 8 -> "qword ptr"

(***************************************************************************)
(* Locations (codegen::locations) and literals.                            *)
(***************************************************************************)
LocRegister(register, size, offset) ==
    [kind |-> "register", register |-> register, size |-> size, offset |-> offset]

LocLocal(offset, size) ==
    [kind |-> "local", offset |-> offset, size |-> size]

LocGlobal(label, size, offset) ==
    [kind |-> "global", label |-> label, size |-> size, offset |-> offset]

\* ExprLit::Int(v) is signed, ExprLit::UInt(v) unsigned.
LitInt(v) == [kind |-> "lit", signed |-> TRUE, value |-> v]
LitUInt(v) == [kind |-> "lit", signed |-> FALSE, value |-> v]

\* The address operand [rbp - offset] of lea.
LocFrame(offset) == [kind |-> "frame", offset |-> offset]

\* A bare operand written into the format string ("rax", r.qword()).
Raw(text) == [kind |-> "raw", text |-> text]

\* MoveDestination::size
MoveDestination_size(dest) == dest.size

\* ExprLit::type_(scope)?.signed()
ExprLit_signed(literal) == literal.signed

(***************************************************************************)
(* Display.                                                                *)
(***************************************************************************)
\* Display for Offset(i64): a sign and the magnitude.
DisplayOffset(n) ==
    IF n < 0 THEN " - " \o ToString(-n) ELSE " + " \o ToString(n)

DisplayRegister(l) ==
    IF l.offset # None
    THEN size_name(l.size) \o " [" \o l.register.qword
             \o DisplayOffset(l.offset[1]) \o "]"
    ELSE from_size(l.register, l.size)

DisplayLocal(l) ==
    size_name(l.size) \o " [rbp - " \o ToString(l.offset) \o "]"

DisplayGlobal(l) ==
    IF l.offset # None
    THEN size_name(l.size) \o " [" \o l.label \o " - "
             \o ToString(l.offset[1]) \o "]"
    ELSE size_name(l.size) \o " [" \o l.label \o "]"

DisplayLit(l) == ToString(l.value)

Display(l) ==
    CASE l.kind = "register" -> DisplayRegister(l)
      [] l.kind = "local" -> DisplayLocal(l)
      [] l.kind = "global" -> DisplayGlobal(l)
      [] l.kind = "lit" -> DisplayLit(l)
      [] l.kind = "frame" -> "[rbp - " \o ToString(l.offset) \o "]"
      [] l.kind = "raw" -> l.text

(***************************************************************************)
(* Instructions. buf holds one record per emitted line; Text is the line   *)
(* that the format string writes.                                          *)
(***************************************************************************)
Ins2(mn, dest, src) == [mn |-> mn, args |-> <<dest, src>>]
Ins1(mn, arg) == [mn |-> mn, args |-> <<arg>>]
Ins0(mn) == [mn |-> mn, args |-> <<>>]

Text(ins) ==
    CASE Len(ins.args) = 0 -> "\t" \o ins.mn \o "\n"
      [] Len(ins.args) = 1 -> "\t" \o ins.mn \o " " \o Display(ins.args[1]) \o "\n"
      [] Len(ins.args) = 2 ->
            "\t" \o ins.mn \o " " \o Display(ins.args[1]) \o ", "
                \o Display(ins.args[2]) \o "\n"

(***************************************************************************)
(* Amd64::mov_impl: the instructions it appends to buf.                    *)
(***************************************************************************)
\* mov_impl extending also between equal sizes.
mov_impl_ge(src, src_size, dest, dest_size, signed) ==
    IF dest_size >= src_size
    THEN IF signed
         THEN << Ins2("movsx", dest, src) >>
         ELSE << Ins2("movzx", dest, src) >>
    ELSE << Ins2("mov", dest, src) >>

mov_impl(src, src_size, dest, dest_size, signed) ==
    IF dest_size > src_size
    THEN IF signed
         THEN << Ins2("movsx", dest, src) >>
         ELSE << Ins2("movzx", dest, src) >>
    ELSE << Ins2("mov", dest, src) >>

\* Amd64::mov_register
mov_register(src, dest, signed) ==
    mov_impl(src, src.size, dest, MoveDestination_size(dest), signed)

\* Amd64::mov_local with a register destination
mov_local_register(src, register, signed) ==
    mov_impl(src, src.size, register, register.size, signed)

\* Amd64::ret
ret(r, type_size, signed) ==
    mov_impl(LocRegister(r, type_size, None), type_size, Raw("rax"), 8, signed)

\* mov_literal taking the literal for a 4-byte source.
mov_literal_dword(literal, dest) ==
    mov_impl(literal, 4, dest, MoveDestination_size(dest), ExprLit_signed(literal))

\* Amd64::mov_literal
mov_literal(literal, dest) ==
    mov_impl(literal, 8, dest, MoveDestination_size(dest), ExprLit_signed(literal))

(***************************************************************************)
(* The register allocator (register::allocator::RegisterAllocator) over    *)
(* the pool of Amd64::new: a fixed ordered pool; alloc takes the first     *)
(* entry not handed out, free gives an entry back.                         *)
(***************************************************************************)
RegisterAllocator_len == Len(Amd64_pool)

RegisterAllocator_get(n) ==
    IF n >= 0 /\ n < RegisterAllocator_len THEN Some(Amd64_pool[n + 1]) ELSE None

FreeEntries(u) == {i \in 1..RegisterAllocator_len : i \notin u}

Min(S) == CHOOSE m \in S : \A x \in S : m <= x

\* alloc on the state u: [ok, register, used]
RegisterAllocator_alloc(u) ==
    IF FreeEntries(u) = {}
    THEN [ok |-> FALSE, register |-> Raw("RanOutOfRegisters"), used |-> u]
    ELSE LET i == Min(FreeEntries(u))
         IN [ok |-> TRUE, register |-> Amd64_pool[i], used |-> u \cup {i}]

\* free on the state u: [ok, used]
RegisterAllocator_free(u, register) ==
    LET held == {i \in u : Amd64_pool[i] = register}
    IN IF held = {}
       THEN [ok |-> FALSE, used |-> u]
       ELSE [ok |-> TRUE, used |-> u \ {Min(held)}]

\* The registers currently handed out, in pool order.
RECURSIVE SeqOfSet(_)
SeqOfSet(S) ==
    IF S = {} THEN <<>> ELSE <<Min(S)>> \o SeqOfSet(S \ {Min(S)})

Allocated(u) == [k \in 1..Cardinality(u) |-> Amd64_pool[SeqOfSet(u)[k]]]

(***************************************************************************)
(* Parameters live in the pool, counted from its end.                      *)
(***************************************************************************)
LocParam(n, size) == [kind |-> "param", n |-> n, size |-> size]

\* mov_param counting parameters from the second last pool entry.
mov_param_slot_from_one(n) == RegisterAllocator_len - 2 - n

\* The pool slot Amd64::mov_param reads parameter n from.
mov_param_slot(n) == RegisterAllocator_len - 1 - n

\* The pool slot Amd64::move_function_argument writes argument i to.
move_function_argument_slot(i) == RegisterAllocator_len - i - 1

\* Amd64::mov_param: through mov, a register move from the parameter's slot.
mov_param(src, dest, signed) ==
    mov_register(
        LocRegister(RegisterAllocator_get(mov_param_slot(src.n))[1], src.size, None),
        dest, signed)

\* Amd64::move_function_argument
move_function_argument(r, i) ==
    << Ins2("mov",
            Raw(RegisterAllocator_get(move_function_argument_slot(i))[1].qword),
            Raw(r.qword)) >>

(***************************************************************************)
(* Initial state: a fresh backend, an idle checker, an empty table.        *)
(***************************************************************************)
NoCall == [op |-> "new"]

NoMove == [size |-> 0]

\* No compile has been called.
NoCompile == [result |-> "none"]

InitBackend ==
    /\ buf = <<>>
    /\ used = {}
    /\ call = NoCall
    /\ pc = "idle"
    /\ ml = NoMove
    /\ ops = <<>>
    /\ cg = NoCompile

\* The registers the executed code touches: rax and three pool registers.
MachineRegs == {"rax", "rdx", "rcx", "r15"}

InitMachine ==
    regs = [file |-> [r \in MachineRegs |-> 0], ip |-> 0, fault |-> FALSE]

NoReturn == [result |-> "none"]

InitChecker ==
    tc = [frames |-> <<>>, depth |-> 0, entry |-> 0, enters |-> 0,
          leaves |-> 0, stmt |-> "none", ret |-> NoReturn]

InitTable == table = <<>>

(***************************************************************************)
(* Single moves on the backend.                                            *)
(***************************************************************************)
R15 == Amd64_pool[1]

MovSources ==
    {LocRegister(R15, s, o) : s \in Sizes, o \in {None, Some(8)}}

MovDestinations ==
    {LocRegister(R15, s, o) : s \in Sizes, o \in {None, Some(-15), Some(8)}}
        \cup {LocLocal(1, s) : s \in Sizes}
        \cup {LocGlobal("foo", s, o) : s \in Sizes, o \in {None, Some(5)}}

MovLocals == {LocLocal(16, s) : s \in Sizes}

MovLiterals == {LitUInt(5), LitUInt(15000), LitInt(-5), LitInt(-7)}

\* Amd64::new(): a fresh backend replaces the one in use.
New ==
    /\ pc = "idle"
    /\ buf # <<>> \/ used # {}
    /\ buf' = <<>>
    /\ used' = {}
    /\ call' = NoCall
    /\ UNCHANGED <<pc, ml, regs, tc, table, ops, cg>>

MovRegisterCall ==
    /\ pc = "idle"
    /\ Len(buf) < MaxBuf
    /\ \E src \in MovSources, dest \in MovDestinations, signed \in BOOLEAN :
          /\ buf' = buf \o mov_register(src, dest, signed)
          /\ call' = [op |-> "mov_register", src |-> src, dest |-> dest,
                      src_size |-> src.size, dest_size |-> dest.size,
                      signed |-> signed, before |-> Len(buf), usedBefore |-> used]
    /\ UNCHANGED <<used, pc, ml, regs, tc, table, ops, cg>>

MovLocalRegisterCall ==
    /\ pc = "idle"
    /\ Len(buf) < MaxBuf
    /\ \E src \in MovLocals, s \in Sizes, signed \in BOOLEAN :
          LET dest == LocRegister(R15, s, None)
          IN /\ buf' = buf \o mov_local_register(src, dest, signed)
             /\ call' = [op |-> "mov_local", src |-> src, dest |-> dest,
                         src_size |-> src.size, dest_size |-> dest.size,
                         signed |-> signed, before |-> Len(buf), usedBefore |-> used]
    /\ UNCHANGED <<used, pc, ml, regs, tc, table, ops, cg>>

RetCall ==
    /\ pc = "idle"
    /\ Len(buf) < MaxBuf
    /\ \E type_size \in Sizes, signed \in BOOLEAN :
          /\ buf' = buf \o ret(R15, type_size, signed)
          /\ call' = [op |-> "ret", src |-> LocRegister(R15, type_size, None),
                      dest |-> Raw("rax"), src_size |-> type_size, dest_size |-> 8,
                      signed |-> signed, before |-> Len(buf), usedBefore |-> used]
    /\ UNCHANGED <<used, pc, ml, regs, tc, table, ops, cg>>

MovLiteralCall ==
    /\ pc = "idle"
    /\ Len(buf) < MaxBuf
    /\ \E literal \in MovLiterals, dest \in MovDestinations :
          /\ buf' = buf \o mov_literal(literal, dest)
          /\ call' = [op |-> "mov_literal", src |-> literal, dest |-> dest,
                      before |-> Len(buf), usedBefore |-> used]
    /\ UNCHANGED <<used, pc, ml, regs, tc, table, ops, cg>>

MovParamCall(ns, dests) ==
    /\ pc = "idle"
    /\ Len(buf) < MaxBuf
    /\ \E n \in ns, s \in Sizes, dest \in dests, signed \in BOOLEAN :
          LET src == LocParam(n, s)
          IN /\ mov_param_slot(n) \in 0..(RegisterAllocator_len - 1)
             /\ buf' = buf \o mov_param(src, dest, signed)
             /\ call' = [op |-> "mov_param", src |-> src, dest |-> dest,
                         src_size |-> s, dest_size |-> dest.size,
                         signed |-> signed, before |-> Len(buf), usedBefore |-> used]
    /\ UNCHANGED <<used, pc, ml, regs, tc, table, ops, cg>>

(***************************************************************************)
(* Amd64::mov_local with a local destination: the chunked copy, one action *)
(* per allocation it makes and per loop body.                              *)
(***************************************************************************)
\* Amd64::lea
lea(dest, offset) == << Ins2("lea", Raw(dest.qword), LocFrame(offset)) >>

\* The match with the 8-byte arm starting one byte late.
chunk_size_of_late(size) ==
    IF size >= 9 THEN 8
    ELSE IF size >= 4 THEN 4
    ELSE IF size >= 2 THEN 2
    ELSE 1

\* The match on size in the loop of mov_local (size = 0 is unreachable!()).
chunk_size_of(size) ==
    IF size >= 8 THEN 8
    ELSE IF size >= 4 THEN 4
    ELSE IF size >= 2 THEN 2
    ELSE 1

\* The two moves of one loop body: load the chunk through r, store it.
mov_local_chunk(m) ==
    mov_register(
        LocRegister(m.r, m.chunk_size, Some(m.size - m.chunk_size)),
        LocRegister(m.r_tmp, m.chunk_size, None), m.signed)
    \o
    mov_register(
        LocRegister(m.r_tmp, m.chunk_size, None),
        LocLocal(m.dest.offset, m.chunk_size), m.signed)

MovLocalPairs ==
    {<<LocLocal(64, n), LocLocal(32, d)>> : n \in 0..MaxN, d \in {0, 4, MaxN}}
        \cup {<<LocLocal(64, n), LocLocal(32, n)>> : n \in 0..MaxN}

MovLocalCall ==
    /\ pc = "idle"
    /\ Len(buf) < MaxBuf
    /\ \E pair \in MovLocalPairs, signed \in BOOLEAN :
          /\ ml' = [src |-> pair[1], dest |-> pair[2], signed |-> signed,
                    size |-> pair[1].size, chunk_size |-> 0,
                    r |-> Raw("unset"), r_tmp |-> Raw("unset")]
          /\ call' = [op |-> "mov_local_local", src |-> pair[1], dest |-> pair[2],
                      signed |-> signed, before |-> Len(buf), usedBefore |-> used,
                      result |-> "running"]
    /\ pc' = "ml_alloc"
    /\ UNCHANGED <<buf, used, regs, tc, table, ops, cg>>

\* let r = self.alloc()?; self.lea(&r, src.offset);
MovLocalAlloc ==
    /\ pc = "ml_alloc"
    /\ LET a == RegisterAllocator_alloc(used)
       IN IF a.ok
          THEN /\ used' = a.used
               /\ ml' = [ml EXCEPT !.r = a.register]
               /\ buf' = buf \o lea(a.register, ml.src.offset)
               /\ pc' = "ml_while"
               /\ call' = call
          ELSE /\ call' = [call EXCEPT !.result = "RanOutOfRegisters"]
               /\ pc' = "idle"
               /\ ml' = NoMove
               /\ UNCHANGED <<used, buf>>
    /\ UNCHANGED <<regs, tc, table, ops, cg>>

\* while size > 0 { let chunk_size = ...; let r_tmp = self.alloc()?;
MovLocalChunkAlloc ==
    /\ pc = "ml_while"
    /\ ml.size > 0
    /\ LET a == RegisterAllocator_alloc(used)
       IN IF a.ok
          THEN /\ used' = a.used
               /\ ml' = [ml EXCEPT !.r_tmp = a.register,
                                   !.chunk_size = chunk_size_of(ml.size)]
               /\ pc' = "ml_copy"
               /\ call' = call
          ELSE /\ call' = [call EXCEPT !.result = "RanOutOfRegisters"]
               /\ pc' = "idle"
               /\ ml' = NoMove
               /\ UNCHANGED used
    /\ UNCHANGED <<buf, regs, tc, table, ops, cg>>

\* ... the two mov_register calls; self.free(r_tmp)?; size -= chunk_size; }
MovLocalChunkCopy ==
    /\ pc = "ml_copy"
    /\ buf' = buf \o mov_local_chunk(ml)
    /\ LET f == RegisterAllocator_free(used, ml.r_tmp)
       IN IF f.ok
          THEN /\ used' = f.used
               /\ ml' = [ml EXCEPT !.size = ml.size - ml.chunk_size]
               /\ pc' = "ml_while"
               /\ call' = call
          ELSE /\ call' = [call EXCEPT !.result = "FreeFailed"]
               /\ pc' = "idle"
               /\ ml' = NoMove
               /\ UNCHANGED used
    /\ UNCHANGED <<regs, tc, table, ops, cg>>

\* mov_local returning Ok without self.free(r).
MovLocalReturn_keeps_r ==
    /\ pc = "ml_while"
    /\ ml.size = 0
    /\ call' = [call EXCEPT !.result = "ok"]
    /\ pc' = "idle"
    /\ ml' = NoMove
    /\ UNCHANGED <<buf, used, regs, tc, table, ops, cg>>

\* self.free(r)?; Ok(())
MovLocalReturn ==
    /\ pc = "ml_while"
    /\ ml.size = 0
    /\ LET f == RegisterAllocator_free(used, ml.r)
       IN /\ used' = f.used
          /\ call' = [call EXCEPT !.result = IF f.ok THEN "ok" ELSE "FreeFailed"]
    /\ pc' = "idle"
    /\ ml' = NoMove
    /\ UNCHANGED <<buf, regs, tc, table, ops, cg>>

\* Another client of the backend takes a register (Amd64::alloc).
AllocCall ==
    /\ pc = "idle"
    /\ LET a == RegisterAllocator_alloc(used)
       IN /\ used' = a.used
          /\ call' = [op |-> "alloc", ok |-> a.ok, register |-> a.register,
                      before |-> Len(buf), usedBefore |-> used]
    /\ UNCHANGED <<buf, pc, ml, regs, tc, table, ops, cg>>

\* A client gives a register it holds back (Amd64::free).
FreeCall ==
    /\ pc = "idle"
    /\ \E i \in used :
          LET f == RegisterAllocator_free(used, Amd64_pool[i])
          IN /\ used' = f.used
             /\ call' = [op |-> "free", ok |-> f.ok, register |-> Amd64_pool[i],
                         before |-> Len(buf), usedBefore |-> used]
    /\ UNCHANGED <<buf, pc, ml, regs, tc, table, ops, cg>>

\* What the last call appended to buf.
Emitted == SubSeq(buf, call.before + 1, Len(buf))

InitMov == InitBackend /\ InitMachine /\ InitChecker /\ InitTable

NextMov ==
    \/ New
    \/ MovRegisterCall
    \/ MovLocalRegisterCall
    \/ RetCall
    \/ MovLiteralCall
    \/ MovParamCall({0, 11}, {LocRegister(R15, s, None) : s \in Sizes})

SpecMov == InitMov /\ [][NextMov]_vars

(***************************************************************************)
(* C1. Every move made through mov_impl (register, local, param moves and  *)
(* ret) appends exactly one instruction: movsx when the destination is     *)
(* wider than the source and the source is signed, movzx when it is wider  *)
(* and the source is unsigned, mov when it is not wider.                   *)
(***************************************************************************)
MoveOps == {"mov_register", "mov_local", "mov_param", "ret"}

C1_Mnemonic ==
    IF call.dest_size > call.src_size /\ call.signed THEN "movsx"
    ELSE IF call.dest_size > call.src_size /\ ~call.signed THEN "movzx"
    ELSE "mov"

C1_MoveEmitsOneInstruction ==
    call.op \in MoveOps =>
        /\ call.src_size \in Sizes /\ call.dest_size \in Sizes
        /\ Len(Emitted) = 1
        /\ Emitted[1].mn = C1_Mnemonic
        /\ Len(Emitted[1].args) = 2

C1_Witness ==
    /\ call.op = "ret"
    /\ call.src_size = 1 /\ call.signed
    /\ Len(Emitted) = 1
    /\ Text(Emitted[1]) = "\tmovsx rax, r15b\n"

(***************************************************************************)
(* C9. Moving a literal into a global (with or without offset), a local, a *)
(* register or memory addressed through a register, of any size in         *)
(* {1,2,4,8}, appends exactly one plain "mov <destination>, <literal>"     *)
(* with the destination written at its own width, whatever the literal's   *)
(* signedness, and takes no register from the pool.                        *)
(***************************************************************************)
C9_Width(size) ==
    CASE size = 1 -> "byte ptr" [] size = 2 -> "word ptr"
      [] size = 4 -> "dword ptr" [] size = 8 -> "qword ptr"

C9_R15(size) ==
    CASE size = 1 -> "r15b" [] size = 2 -> "r15w"
      [] size = 4 -> "r15d" [] size = 8 -> "r15"

C9_Destination(d) ==
    CASE d.kind = "register" /\ d.offset = None -> C9_R15(d.size)
      [] d.kind = "register" /\ d.offset = Some(-15) -> C9_Width(d.size) \o " [r15 - 15]"
      [] d.kind = "register" /\ d.offset = Some(8) -> C9_Width(d.size) \o " [r15 + 8]"
      [] d.kind = "local" -> C9_Width(d.size) \o " [rbp - 1]"
      [] d.kind = "global" /\ d.offset = None -> C9_Width(d.size) \o " [foo]"
      [] d.kind = "global" /\ d.offset = Some(5) -> C9_Width(d.size) \o " [foo - 5]"

C9_Literal(l) ==
    CASE l = LitUInt(5) -> "5" [] l = LitUInt(15000) -> "15000"
      [] l = LitInt(-5) -> "-5" [] l = LitInt(-7) -> "-7"

C9_LiteralMoveIsPlainMov ==
    call.op = "mov_literal" =>
        /\ Len(Emitted) = 1
        /\ Text(Emitted[1]) =
              "\tmov " \o C9_Destination(call.dest) \o ", "
                  \o C9_Literal(call.src) \o "\n"
        /\ used = call.usedBefore

C9_Witness ==
    /\ call.op = "mov_literal"
    /\ call.dest = LocRegister(R15, 2, Some(8))
    /\ call.src = LitInt(-7)
    /\ Text(buf[Len(buf)]) = "\tmov word ptr [r15 + 8], -7\n"

(***************************************************************************)
(* The chunked copy as a system: moves between locals of every size up to  *)
(* MaxN, started in every fill state of the pool.                          *)
(***************************************************************************)
InitLocal == InitBackend /\ InitMachine /\ InitChecker /\ InitTable

MovLocalStep ==
    \/ MovLocalAlloc
    \/ MovLocalChunkAlloc
    \/ MovLocalChunkCopy
    \/ MovLocalReturn

NextLocal ==
    \/ New
    \/ AllocCall
    \/ MovLocalCall
    \/ MovLocalStep

SpecLocal == InitLocal /\ [][NextLocal]_vars

\* The backend runs a started move to its return.
SpecLocalFair == SpecLocal /\ WF_vars(MovLocalStep)

(***************************************************************************)
(* What a move between locals has emitted: after the lea, one load and one *)
(* store per chunk.                                                        *)
(***************************************************************************)
RECURSIVE SumSeq(_)
SumSeq(q) == IF q = <<>> THEN 0 ELSE q[1] + SumSeq(Tail(q))

ChunkCount == IF Len(Emitted) = 0 THEN 0 ELSE (Len(Emitted) - 1) \div 2

ChunkLoad(i) == Emitted[2 * i]
ChunkStore(i) == Emitted[2 * i + 1]

ChunkSizes == [i \in 1..ChunkCount |-> ChunkLoad(i).args[2].size]

(***************************************************************************)
(* C2. For every source size N the chunk loop of a move between locals     *)
(* comes to an end, every chunk size is one of 8, 4, 2, 1 and the largest  *)
(* of them that does not exceed the bytes still to copy, and when the move *)
(* returns Ok the sizes sum to N; N = 11 gives 8, 2, 1 and N = 5 gives     *)
(* 4, 1. (The move returns the allocator's error instead when the pool     *)
(* cannot supply its two scratch registers.)                               *)
(***************************************************************************)
C2_Greedy ==
    call.op = "mov_local_local" =>
        LET cs == ChunkSizes
            N == call.src.size
        IN /\ \A i \in DOMAIN cs :
                 LET remaining == N - SumSeq(SubSeq(cs, 1, i - 1))
                 IN /\ cs[i] \in {8, 4, 2, 1}
                    /\ cs[i] <= remaining
                    /\ \A c \in {8, 4, 2, 1} : c <= remaining => c <= cs[i]
           /\ call.result = "ok" => SumSeq(cs) = N
           /\ call.result = "ok" /\ N = 11 => cs = <<8, 2, 1>>
           /\ call.result = "ok" /\ N = 5 => cs = <<4, 1>>

C2_ChunkLoop == [] C2_Greedy /\ ((pc # "idle") ~> (pc = "idle"))

C2_Witness ==
    /\ call.op = "mov_local_local"
    /\ call.result = "ok"
    /\ call.src.size = 11
    /\ ChunkSizes = <<8, 2, 1>>

(***************************************************************************)
(* The bytes a move between locals copies. Positions are relative to the   *)
(* start of the source (the address the lea put in r) and to the start of  *)
(* the destination local ([rbp - dest.offset] is its byte 0).              *)
(***************************************************************************)
ChunkFrom(i) == ChunkLoad(i).args[2].offset[1]
ChunkTo(i) == call.dest.offset - ChunkStore(i).args[1].offset
ChunkCopied(i) == SumSeq(SubSeq(ChunkSizes, 1, i - 1))

\* The source bytes stored into destination byte k by chunks i.., in order.
RECURSIVE WritesFrom(_, _)
WritesFrom(i, k) ==
    IF i > ChunkCount THEN <<>>
    ELSE (IF ChunkTo(i) <= k /\ k < ChunkTo(i) + ChunkSizes[i]
          THEN << ChunkFrom(i) + (k - ChunkTo(i)) >>
          ELSE <<>>) \o WritesFrom(i + 1, k)

WritesTo(k) == WritesFrom(1, k)

(***************************************************************************)
(* C3. In a move of N bytes between locals every chunk is loaded from the  *)
(* source at the number of bytes already copied and stored to the          *)
(* destination advanced by the same number of bytes, so that each of the   *)
(* N destination bytes is written exactly once, with the source byte of    *)
(* the same position.                                                      *)
(***************************************************************************)
C3_EveryByteCopiedOnce ==
    /\ call.op = "mov_local_local" /\ call.result = "ok"
    /\ call.dest.size = call.src.size
    =>
        /\ \A i \in 1..ChunkCount :
              /\ ChunkFrom(i) = ChunkCopied(i)
              /\ ChunkTo(i) = ChunkCopied(i)
        /\ \A k \in 0..(call.src.size - 1) : WritesTo(k) = << k >>

C3_Witness ==
    /\ call.op = "mov_local_local" /\ call.result = "ok"
    /\ call.src.size = 3 /\ call.dest.size = 3
    /\ WritesTo(0) = << 1, 0 >>
    /\ WritesTo(2) = << >>

(***************************************************************************)
(* The allocator under arbitrary alloc and free calls on one backend.      *)
(***************************************************************************)
InitAlloc == InitBackend /\ InitMachine /\ InitChecker /\ InitTable

NextAlloc ==
    \/ New
    \/ AllocCall
    \/ FreeCall

SpecAlloc == InitAlloc /\ [][NextAlloc]_vars

\* The physical registers behind a set of pool entries.
Live(u) == {Amd64_pool[i] : i \in u}

\* Two registers are the same physical register if they share a view.
SameRegister(a, b) ==
    {a.byte, a.word, a.dword, a.qword} \cap {b.byte, b.word, b.dword, b.qword} # {}

NoRegisterTwice(u) ==
    \A i \in u, j \in u : i # j => ~SameRegister(Amd64_pool[i], Amd64_pool[j])

(***************************************************************************)
(* C4. On a fresh backend 12 alloc() calls in a row succeed and return 12  *)
(* pairwise distinct physical registers; an alloc() made while 12          *)
(* registers are live fails with the exhaustion error and hands out no     *)
(* register that is live.                                                  *)
(***************************************************************************)
C4_Capacity ==
    /\ NoRegisterTwice(used)
    /\ call.op = "alloc" =>
          /\ Cardinality(call.usedBefore) < 12 => call.ok
          /\ Cardinality(call.usedBefore) = 12 =>
                /\ ~call.ok
                /\ call.register = Raw("RanOutOfRegisters")
                /\ used = call.usedBefore
          /\ call.ok =>
                /\ \A r \in Live(call.usedBefore) : ~SameRegister(r, call.register)
                /\ Live(used) = Live(call.usedBefore) \cup {call.register}

C4_Witness ==
    /\ call.op = "alloc"
    /\ ~call.ok
    /\ Cardinality(Live(used)) = 12

(***************************************************************************)
(* The code generation driver (CodeGen): the registers it takes and gives  *)
(* back while it compiles the statements of a program. ops holds the       *)
(* results of the subexpressions evaluated so far in the current statement,*)
(* the innermost last; an expression tree is walked left operand first.    *)
(* call keeps the step made last; the text the steps append to the         *)
(* sections is not accumulated here.                                       *)
(***************************************************************************)
Top(q) == q[Len(q)]
Pop(q) == SubSeq(q, 1, Len(q) - 1)

\* add/sub/mul/div/cmp freeing the left operand's register.
bin_freed_left(left, right) == left

\* The register CodeGen::add/sub/mul/div/cmp free: r2, the right operand.
bin_freed(left, right) == right

\* The register a binary expression returns: left.
bin_result(left, right) == left

\* CodeGen::new
CgNew ==
    /\ pc \in {"idle", "cg_err", "cg_done"}
    /\ pc' = "cg"
    /\ used' = {}
    /\ ops' = <<>>
    /\ buf' = <<>>
    /\ call' = [op |-> "CodeGen::new"]
    /\ UNCHANGED <<ml, regs, tc, table, cg>>

\* CodeGen::load: Expr::Lit and Expr::Ident
CgLoad ==
    /\ pc = "cg"
    /\ LET a == RegisterAllocator_alloc(used)
       IN /\ used' = a.used
          /\ call' = [op |-> "load", ok |-> a.ok, register |-> a.register,
                      prevFreed |-> IF call.op \in {"bin", "not"} /\ call.ok
                                    THEN call.freed ELSE None,
                      usedBefore |-> used]
          /\ IF a.ok
             THEN ops' = Append(ops, a.register) /\ pc' = pc
             ELSE ops' = ops /\ pc' = "cg_err"
    /\ UNCHANGED <<buf, ml, regs, tc, table, cg>>

\* UnOp::Negative (CodeGen::negate) and BinOp::Assign (CodeGen::save): the
\* operand's register is the result.
CgInPlace ==
    /\ pc = "cg"
    /\ Len(ops) >= 1
    /\ call' = [op |-> "in_place", ok |-> TRUE, register |-> Top(ops),
                usedBefore |-> used]
    /\ UNCHANGED <<buf, used, pc, ml, regs, tc, table, ops, cg>>

\* UnOp::Not (CodeGen::not): a fresh register, then the operand's is freed.
CgNot ==
    /\ pc = "cg"
    /\ Len(ops) >= 1
    /\ LET r2 == Top(ops)
           a == RegisterAllocator_alloc(used)
           f == RegisterAllocator_free(a.used, r2)
       IN IF ~a.ok
          THEN /\ call' = [op |-> "not", ok |-> FALSE, register |-> a.register,
                           freed |-> None, usedBefore |-> used]
               /\ pc' = "cg_err"
               /\ UNCHANGED <<used, ops>>
          ELSE /\ used' = f.used
               /\ call' = [op |-> "not", ok |-> f.ok, register |-> a.register,
                           freed |-> Some(r2), usedBefore |-> used]
               /\ IF f.ok
                  THEN ops' = Append(Pop(ops), a.register) /\ pc' = pc
                  ELSE ops' = ops /\ pc' = "cg_err"
    /\ UNCHANGED <<buf, ml, regs, tc, table, cg>>

\* The arithmetic and comparison arms of CodeGen::bin_expr (Add, Sub, Mul,
\* Div and the six comparisons) with CodeGen::add/sub/mul/div/cmp: the arms
\* differ only in the instruction they append.
CgBin ==
    /\ pc = "cg"
    /\ Len(ops) >= 2
    /\ LET right == Top(ops)
           left == Top(Pop(ops))
           f == RegisterAllocator_free(used, bin_freed(left, right))
       IN /\ used' = f.used
          /\ call' = [op |-> "bin", ok |-> f.ok,
                      register |-> bin_result(left, right),
                      freed |-> Some(bin_freed(left, right)), usedBefore |-> used]
          /\ IF f.ok
             THEN ops' = Append(Pop(Pop(ops)), bin_result(left, right)) /\ pc' = pc
             ELSE ops' = ops /\ pc' = "cg_err"
    /\ UNCHANGED <<buf, ml, regs, tc, table, cg>>

\* CodeGen::stmt: Stmt::Expr drops the result; Stmt::VarDecl declares.
CgStmt ==
    /\ pc = "cg"
    /\ \/ /\ Len(ops) = 1
          /\ ops' = <<>>
          /\ call' = [op |-> "stmt_expr", ok |-> TRUE, register |-> Top(ops),
                      usedBefore |-> used]
       \/ /\ Len(ops) = 0
          /\ ops' = ops
          /\ call' = [op |-> "declare", ok |-> TRUE, usedBefore |-> used]
    /\ UNCHANGED <<buf, used, pc, ml, regs, tc, table, cg>>

\* CodeGen::compile after the last statement: the sections are written.
CgReturn ==
    /\ pc = "cg"
    /\ ops = <<>>
    /\ pc' = "cg_done"
    /\ call' = [op |-> "compile", ok |-> TRUE, usedBefore |-> used]
    /\ UNCHANGED <<buf, used, ml, regs, tc, table, ops, cg>>

InitDriver == InitBackend /\ InitMachine /\ InitChecker /\ InitTable

NextDriver ==
    \/ CgNew
    \/ CgLoad
    \/ CgInPlace
    \/ CgNot
    \/ CgBin
    \/ CgStmt
    \/ CgReturn

SpecDriver == InitDriver /\ [][NextDriver]_vars

(***************************************************************************)
(* C5. Whatever alloc and free calls compiling a program makes, no         *)
(* physical register is allocated twice at the same time and at most 12    *)
(* are allocated; a register that was freed and is allocated again comes   *)
(* back into service without a change to which other registers are live.   *)
(***************************************************************************)
C5_AllocatedRegisters ==
    /\ NoRegisterTwice(used)
    /\ Cardinality(Live(used)) = Cardinality(used)
    /\ Cardinality(used) <= 12
    /\ call.op = "load" /\ call.ok =>
          /\ \A r \in Live(call.usedBefore) : ~SameRegister(r, call.register)
          /\ Live(used) = Live(call.usedBefore) \cup {call.register}
    /\ call.op = "bin" /\ call.ok =>
          Live(used) = Live(call.usedBefore) \ {call.freed[1]}
    /\ call.op = "not" /\ call.ok =>
          /\ \A r \in Live(call.usedBefore) : ~SameRegister(r, call.register)
          /\ Live(used) = (Live(call.usedBefore) \cup {call.register}) \ {call.freed[1]}

\* Twelve registers are live, the last of them freed by the step before
\* and allocated again.
C5_Witness ==
    /\ call.op = "load" /\ call.ok
    /\ call.prevFreed = Some(call.register)
    /\ Cardinality(used) = 12

(***************************************************************************)
(* The type checker walking a program. The program is chosen statement by  *)
(* statement as the walk goes; tc.frames holds one frame per check_block   *)
(* call in progress, tc.depth is the depth of the scope stack, tc.enters   *)
(* and tc.leaves count the calls of Scope::enter and Scope::leave.         *)
(***************************************************************************)
Scope_enter(depth) == depth + 1
Scope_leave(depth) == depth - 1

\* Statements that check no block, and whether their check can return Err.
SimpleStmts == {"VarDecl", "Expr", "Return", "Break"}
BlockStmts == {"Function", "If", "While", "For"}
Outcomes(kind) == IF kind = "Break" THEN {"ok"} ELSE {"ok", "err", "panic"}

\* Where an Err continues: `?` hands it to the enclosing check_block, or
\* out of run_pass when there is none.
Propagate(frames) == IF frames = <<>> THEN "tc_err" ELSE "tc_unwind"

\* What check_block returned, with the enter and leave calls made since
\* it was called.
Returned(f, result, t) ==
    [result |-> result, kind |-> f.kind,
     enters |-> t.enters - f.enters, leaves |-> t.leaves - f.leaves,
     depthIn |-> f.depth, depthOut |-> t.depth]

\* check_block up to its first statement: scope.enter, then
\* check_type_table(...)? with result tt.
check_block_enter(t, kind, alt, tt) ==
    [t EXCEPT !.frames = Append(@, [kind |-> kind, alt |-> alt,
                                    enters |-> t.enters, leaves |-> t.leaves,
                                    depth |-> t.depth]),
              !.depth = Scope_enter(@),
              !.enters = @ + 1,
              !.stmt = kind]

\* run_pass: check_type_table(...)? and then the top-level statements.
TcRunPass ==
    /\ pc = "idle"
    /\ \E tt \in {"ok", "err"} :
          /\ tc' = [tc EXCEPT !.entry = tc.depth, !.stmt = "type_table"]
          /\ pc' = IF tt = "ok" THEN "tc" ELSE "tc_err"
    /\ UNCHANGED <<buf, used, call, ml, regs, table, ops, cg>>

\* check_stmt on a statement without a block.
TcSimple ==
    /\ pc = "tc"
    /\ \E kind \in SimpleStmts : \E out \in Outcomes(kind) :
          /\ tc' = [tc EXCEPT !.stmt = kind]
          /\ pc' = CASE out = "ok" -> "tc"
                     [] out = "err" -> Propagate(tc.frames)
                     [] out = "panic" -> "tc_abort"
    /\ UNCHANGED <<buf, used, call, ml, regs, table, ops, cg>>

\* check_stmt on Function, If, While or For: the checks before the block
\* (check_type, bool_expr) with result pre, then check_block.
TcBlock ==
    /\ pc = "tc"
    /\ Len(tc.frames) < MaxDepth
    /\ tc.enters < MaxBlocks
    /\ \E kind \in BlockStmts : \E pre, tt \in {"ok", "err"} :
       \E alt \in (IF kind = "If" THEN BOOLEAN ELSE {FALSE}) :
          IF pre = "err"
          THEN /\ tc' = [tc EXCEPT !.stmt = kind]
               /\ pc' = Propagate(tc.frames)
          ELSE /\ tc' = check_block_enter(tc, kind, alt, tt)
               /\ pc' = IF tt = "ok" THEN "tc" ELSE "tc_unwind"
    /\ UNCHANGED <<buf, used, call, ml, regs, table, ops, cg>>

\* check_block after its last statement: scope.leave(); Ok(()).
TcBlockEnd ==
    /\ pc = "tc"
    /\ tc.frames # <<>>
    /\ LET f == Top(tc.frames)
           t == [tc EXCEPT !.frames = Pop(@),
                           !.depth = Scope_leave(@),
                           !.leaves = @ + 1]
       IN /\ tc' = [t EXCEPT !.ret = Returned(f, "ok", t)]
          /\ pc' = IF f.alt THEN "tc_alt" ELSE "tc"
    /\ UNCHANGED <<buf, used, call, ml, regs, table, ops, cg>>

\* Stmt::If with an alternative: check_block(alternative) after the
\* consequence returned Ok.
TcAlternative ==
    /\ pc = "tc_alt"
    /\ \E tt \in {"ok", "err"} :
          /\ tc' = check_block_enter(tc, "Else", FALSE, tt)
          /\ pc' = IF tt = "ok" THEN "tc" ELSE "tc_unwind"
    /\ UNCHANGED <<buf, used, call, ml, regs, table, ops, cg>>

\* check_block returning the Err of a `?`: the function is left at the
\* `?`, scope.leave() is not reached.
TcUnwind ==
    /\ pc = "tc_unwind"
    /\ tc.frames # <<>>
    /\ LET f == Top(tc.frames)
           t == [tc EXCEPT !.frames = Pop(@)]
       IN /\ tc' = [t EXCEPT !.ret = Returned(f, "err", t)]
          /\ pc' = Propagate(t.frames)
    /\ UNCHANGED <<buf, used, call, ml, regs, table, ops, cg>>

\* run_pass after the last top-level statement: Ok(()).
TcReturn ==
    /\ pc = "tc"
    /\ tc.frames = <<>>
    /\ pc' = "tc_ok"
    /\ UNCHANGED <<buf, used, call, ml, regs, tc, table, ops, cg>>

InitScope == InitBackend /\ InitMachine /\ InitChecker /\ InitTable

NextScope ==
    \/ TcRunPass
    \/ TcSimple
    \/ TcBlock
    \/ TcBlockEnd
    \/ TcAlternative
    \/ TcUnwind
    \/ TcReturn

SpecScope == InitScope /\ [][NextScope]_vars

(***************************************************************************)
(* C6. When check_block returns, with Ok or with an error of the type      *)
(* table check or of a statement inside the block, it has called           *)
(* scope.leave() as often as scope.enter(); so when run_pass has returned, *)
(* with Ok or with an error, the scope stack is as deep as before it.      *)
(***************************************************************************)
C6_ScopeBalanced ==
    /\ tc.ret # NoReturn =>
          /\ tc.ret.leaves = tc.ret.enters
          /\ tc.ret.depthOut = tc.ret.depthIn
    /\ pc \in {"tc_ok", "tc_err"} => tc.depth = tc.entry

\* run_pass has returned the error of a statement in a function body: the
\* body's scope was entered once, never left, and is still on the stack.
C6_Witness ==
    /\ pc = "tc_err"
    /\ tc.ret # NoReturn
    /\ tc.ret.result = "err" /\ tc.ret.kind = "Function"
    /\ tc.stmt = "Expr"
    /\ tc.ret.enters = 1 /\ tc.ret.leaves = 0
    /\ tc.depth = tc.entry + 1

(***************************************************************************)
(* Amd64::div and the machine running what it emitted. Registers are       *)
(* WordBits wide and hold two's complement values; rdx:rax is the double   *)
(* width dividend of idiv.                                                 *)
(***************************************************************************)
\* div extending rax into rdx before it has copied the dividend to rax.
div_cqo_first(r1, r2) ==
    << Ins0("cqo"),
       Ins2("mov", Raw("rax"), Raw(r1.qword)),
       Ins1("idiv", Raw(r2.qword)),
       Ins2("mov", Raw(r1.qword), Raw("rax")) >>

\* Amd64::div
div(r1, r2) ==
    << Ins2("mov", Raw("rax"), Raw(r1.qword)),
       Ins0("cqo"),
       Ins1("idiv", Raw(r2.qword)),
       Ins2("mov", Raw(r1.qword), Raw("rax")) >>

RECURSIVE Pow2(_)
Pow2(n) == IF n = 0 THEN 1 ELSE 2 * Pow2(n - 1)
MinWord == -Pow2(WordBits - 1)
MaxWord == Pow2(WordBits - 1) - 1
Word == MinWord..MaxWord

Abs(x) == IF x < 0 THEN -x ELSE x
Unsigned(x) == IF x < 0 THEN x + Pow2(WordBits) ELSE x

\* Signed division as idiv does it: the quotient is truncated towards zero.
TruncDiv(n, d) ==
    IF (n < 0) = (d < 0) THEN Abs(n) \div Abs(d) ELSE -(Abs(n) \div Abs(d))

\* The pool entries the operands of a division are taken from: rdx and two
\* registers outside the dividend pair. The one of the three that is not
\* an operand holds another live value.
DivPool == {i \in 1..Len(Amd64_pool) : Amd64_pool[i].qword \in MachineRegs}

DivCall ==
    /\ pc = "idle"
    /\ buf = <<>>
    /\ \E l, r \in DivPool : \E a, b \in Word : \E c \in {0, MaxWord} :
          LET file == [n \in MachineRegs |->
                          CASE n = Amd64_pool[l].qword -> a
                            [] n = Amd64_pool[r].qword -> b
                            [] n = "rax" -> regs.file[n]
                            [] OTHER -> c]
          IN /\ l # r
             /\ buf' = buf \o div(Amd64_pool[l], Amd64_pool[r])
             /\ regs' = [file |-> file, ip |-> 1, fault |-> FALSE]
             /\ call' = [op |-> "div", r1 |-> Amd64_pool[l], r2 |-> Amd64_pool[r],
                         left |-> a, right |-> b, file |-> file, before |-> Len(buf)]
    /\ pc' = "run"
    /\ UNCHANGED <<used, ml, tc, table, ops, cg>>

Fetch == buf[regs.ip]
Running == pc = "run" /\ ~regs.fault /\ regs.ip \in 1..Len(buf)

\* mov between two registers.
ExecMov ==
    /\ Running
    /\ Fetch.mn = "mov"
    /\ regs' = [regs EXCEPT !.file[Fetch.args[1].text] = regs.file[Fetch.args[2].text],
                            !.ip = @ + 1]
    /\ UNCHANGED <<buf, used, call, pc, ml, tc, table, ops, cg>>

\* cqo: rdx becomes the sign extension of rax.
ExecCqo ==
    /\ Running
    /\ Fetch.mn = "cqo"
    /\ regs' = [regs EXCEPT !.file["rdx"] = IF regs.file["rax"] < 0 THEN -1 ELSE 0,
                            !.ip = @ + 1]
    /\ UNCHANGED <<buf, used, call, pc, ml, tc, table, ops, cg>>

\* idiv r: rdx:rax divided by r; quotient to rax, remainder to rdx; a divide
\* error when r is 0 or the quotient does not fit the register.
ExecIdiv ==
    /\ Running
    /\ Fetch.mn = "idiv"
    /\ LET dividend == regs.file["rdx"] * Pow2(WordBits) + Unsigned(regs.file["rax"])
           divisor == regs.file[Fetch.args[1].text]
           quotient == TruncDiv(dividend, divisor)
       IN IF divisor = 0 \/ quotient \notin Word
          THEN regs' = [regs EXCEPT !.fault = TRUE]
          ELSE regs' = [regs EXCEPT !.file["rax"] = quotient,
                                    !.file["rdx"] = dividend - quotient * divisor,
                                    !.ip = @ + 1]
    /\ UNCHANGED <<buf, used, call, pc, ml, tc, table, ops, cg>>

InitDiv == InitBackend /\ InitMachine /\ InitChecker /\ InitTable

NextDiv ==
    \/ DivCall
    \/ ExecMov
    \/ ExecCqo
    \/ ExecIdiv

SpecDiv == InitDiv /\ [][NextDiv]_vars

\* The emitted sequence has run to its end, or has stopped at a divide error.
DivDone == pc = "run" /\ (regs.fault \/ regs.ip > Len(buf))

\* q is the signed quotient of n by d: n = q * d + rem with a remainder
\* smaller than d in magnitude and of the sign of n.
IsQuotient(q, n, d) ==
    \E rem \in (-Abs(d))..Abs(d) :
        /\ Abs(rem) < Abs(d)
        /\ n = q * d + rem
        /\ rem = 0 \/ ((rem < 0) = (n < 0))

LeftInRdx == call.op = "div" /\ call.r1.qword = "rdx"

(***************************************************************************)
(* C7 as stated. With the left operand in rdx, the sequence emitted by div *)
(* leaves the signed quotient left / right in rdx, for every other right   *)
(* operand register and all operand values with a divisor other than 0.    *)
(***************************************************************************)
C7_QuotientForEveryDivisor ==
    (DivDone /\ LeftInRdx /\ call.right # 0) =>
        /\ ~regs.fault
        /\ IsQuotient(regs.file["rdx"], call.left, call.right)

(***************************************************************************)
(* C7, amended. With the left operand in rdx, the sequence emitted by div  *)
(* leaves the signed quotient left / right in rdx for every other right    *)
(* operand register and all operand values with a divisor other than 0,    *)
(* except the least value divided by -1: that quotient does not fit the    *)
(* register and idiv stops with a divide error.                            *)
(***************************************************************************)
C7_QuotientWhereRepresentable ==
    (DivDone /\ LeftInRdx /\ call.right # 0) =>
        IF call.left = MinWord /\ call.right = -1
        THEN regs.fault
        ELSE /\ ~regs.fault
             /\ IsQuotient(regs.file["rdx"], call.left, call.right)
             /\ regs.file[call.r2.qword] = call.right

\* -7 / 2 with the left operand in rdx has run: rdx holds -3.
C7_Witness ==
    /\ DivDone /\ LeftInRdx
    /\ call.left = -7 /\ call.right = 2
    /\ ~regs.fault
    /\ regs.file["rdx"] = -3

(***************************************************************************)
(* Arguments and parameters: move_function_argument at the call site and   *)
(* mov_param in the callee, on a backend with any number of registers      *)
(* handed out.                                                             *)
(***************************************************************************)
\* move_function_argument(r, i) with r a register the caller holds.
MoveFunctionArgumentCall ==
    /\ pc = "idle"
    /\ Len(buf) < MaxBuf
    /\ \E r \in {Amd64_pool[k] : k \in used} : \E i \in 0..(RegisterAllocator_len - 1) :
          /\ buf' = buf \o move_function_argument(r, i)
          /\ call' = [op |-> "move_function_argument", r |-> r, i |-> i,
                      before |-> Len(buf), usedBefore |-> used]
    /\ UNCHANGED <<used, pc, ml, regs, tc, table, ops, cg>>

InitParam == InitBackend /\ InitMachine /\ InitChecker /\ InitTable

NextParam ==
    \/ New
    \/ AllocCall
    \/ MoveFunctionArgumentCall
    \/ MovParamCall(0..(RegisterAllocator_len - 1), {LocRegister(R15, 8, None)})

SpecParam == InitParam /\ [][NextParam]_vars

\* pool[len-1-i], the pool counted from 0 as in the source.
ParamRegister(i) == Amd64_pool[(Len(Amd64_pool) - 1 - i) + 1]

\* The first six parameter registers by name.
ParamNames == << "rdi", "rsi", "rdx", "rcx", "r8", "r9" >>

\* The register mov_param reads parameter n from, taken from what it emits.
ParamRead(n) ==
    mov_param(LocParam(n, 8), LocRegister(R15, 8, None), FALSE)[1].args[2].register

\* The name of the register move_function_argument writes argument i to,
\* taken from what it emits.
ArgumentWritten(i) == move_function_argument(R15, i)[1].args[1].text

(***************************************************************************)
(* C8. Parameter i lives in pool[len-1-i] of the 12-entry pool (rdi, rsi,  *)
(* rdx, rcx, r8, r9 for i = 0..5): for every i below 12 and however many   *)
(* registers are handed out, move_function_argument(_, i) writes the       *)
(* register that mov_param reads for parameter n = i.                      *)
(***************************************************************************)
C8_ArgumentIsParameter ==
    /\ call.op = "move_function_argument" =>
          /\ used = call.usedBefore
          /\ Len(Emitted) = 1
          /\ Emitted[1] = Ins2("mov", Raw(ParamRegister(call.i).qword), Raw(call.r.qword))
          /\ ParamRead(call.i).qword = Emitted[1].args[1].text
          /\ call.i < 6 => Emitted[1].args[1].text = ParamNames[call.i + 1]
    /\ call.op = "mov_param" =>
          /\ used = call.usedBefore
          /\ Len(Emitted) = 1
          /\ Emitted[1].args[2].register = ParamRegister(call.src.n)
          /\ ArgumentWritten(call.src.n) = Emitted[1].args[2].register.qword
          /\ call.src.n < 6 =>
                Emitted[1].args[2].register.qword = ParamNames[call.src.n + 1]

\* With all 12 registers handed out, rdx among them, argument 2 is written
\* to rdx.
C8_Witness ==
    /\ call.op = "move_function_argument"
    /\ call.i = 2
    /\ Cardinality(used) = 12
    /\ Emitted[1].args[1].text = "rdx"
    /\ ParamRead(2).qword = "rdx"

(***************************************************************************)
(* SymbolTable: a vector of symbols, searched by name.                     *)
(***************************************************************************)
MAX_SYMBOLS == 512

\* Symbol::Global, Local, Param, Function; name() is the name of each.
SymbolKinds == {"Global", "Local", "Param", "Function"}
Symbol(kind, name) == [kind |-> kind, name |-> name]

\* SymbolTable::find: the first symbol of that name.
find(t, name) ==
    LET at == {i \in 1..Len(t) : t[i].name = name}
    IN IF at = {} THEN None ELSE Some(t[Min(at)])

\* SymbolTable::push: [result, table]
push(t, symbol) ==
    IF ~(Len(t) < MAX_SYMBOLS)
    THEN [result |-> "panic", table |-> t]
    ELSE IF symbol.name \in {t[i].name : i \in 1..Len(t)}
         THEN [result |-> "Redeclaration", name |-> symbol.name, table |-> t]
         ELSE [result |-> "Ok", table |-> Append(t, symbol)]

\* The table after n pushes of globals named "1" .. "n".
Pushed(n) == [k \in 1..n |-> Symbol("Global", ToString(k))]

\* The names pushed and looked for: one that Pushed(n) holds, two it lacks.
SymNames == {"1", "x", "y"}

\* A new table, or one that is two symbols short of MAX_SYMBOLS.
InitSym ==
    /\ InitBackend /\ InitMachine /\ InitChecker
    /\ table \in {Pushed(0), Pushed(MAX_SYMBOLS - 2)}

SymPush ==
    /\ pc = "idle"
    /\ \E kind \in SymbolKinds : \E name \in SymNames :
          LET symbol == Symbol(kind, name)
              r == push(table, symbol)
          IN /\ table' = r.table
             /\ call' = [op |-> "push", symbol |-> symbol, result |-> r.result,
                         tableBefore |-> table]
             /\ pc' = IF r.result = "panic" THEN "abort" ELSE "idle"
    /\ UNCHANGED <<buf, used, ml, regs, tc, ops, cg>>

SymFind ==
    /\ pc = "idle"
    /\ \E name \in SymNames :
          call' = [op |-> "find", name |-> name, found |-> find(table, name)]
    /\ UNCHANGED <<buf, used, pc, ml, regs, tc, table, ops, cg>>

NextSym ==
    \/ SymPush
    \/ SymFind

SpecSym == InitSym /\ [][NextSym]_vars

NamesOf(t) == {t[i].name : i \in 1..Len(t)}

(***************************************************************************)
(* C10. After any pushes no two symbols of the table have the same name,   *)
(* of whatever kinds they are: a push of a name the table holds returns    *)
(* Redeclaration(name) and leaves the table as it was, a push of a new     *)
(* name appends the symbol, and find(name) then returns it.                *)
(***************************************************************************)
C10_PushKeepsNamesUnique ==
    /\ Cardinality(NamesOf(table)) = Len(table)
    /\ call.op = "push" =>
          IF call.symbol.name \in NamesOf(call.tableBefore)
          THEN /\ call.result = "Redeclaration"
               /\ table = call.tableBefore
          ELSE /\ call.result = "Ok"
               /\ table = Append(call.tableBefore, call.symbol)
               /\ find(table, call.symbol.name) = Some(call.symbol)

\* A push on a table of MAX_SYMBOLS symbols has stopped the program.
C10_Witness ==
    /\ call.op = "push"
    /\ call.result = "panic"
    /\ pc = "abort"
    /\ Len(table) = MAX_SYMBOLS
    /\ call.symbol.name \in NamesOf(table)

\* Below MAX_SYMBOLS symbols the pushes do as C10 says, and names stay
\* unique throughout.
C10_BelowCapacity ==
    /\ Cardinality(NamesOf(table)) = Len(table)
    /\ Len(table) <= MAX_SYMBOLS
    /\ (call.op = "push" /\ Len(call.tableBefore) < MAX_SYMBOLS) =>
          IF call.symbol.name \in NamesOf(call.tableBefore)
          THEN /\ call.result = "Redeclaration"
               /\ table = call.tableBefore
          ELSE /\ call.result = "Ok"
               /\ table = Append(call.tableBefore, call.symbol)
               /\ find(table, call.symbol.name) = Some(call.symbol)

(***************************************************************************)
(* The code generation driver on expressions (CodeGen::expr and below).    *)
(* An evaluation threads a state [used, text, trace]: the allocator, the   *)
(* text section as instruction records, and the allocator calls and        *)
(* emissions in the order they were made. It returns that state with ok,   *)
(* the result register and the error.                                      *)
(***************************************************************************)
\* Expressions. Identifiers are names of the symbol table the parser built.
Lit(v) == [kind |-> "Lit", value |-> v]
Ident(name) == [kind |-> "Ident", name |-> name]
Unary(op, e) == [kind |-> "Unary", op |-> op, expr |-> e]
Binary(op, l, r) == [kind |-> "Binary", op |-> op, left |-> l, right |-> r]
Cast(e, typed) == [kind |-> "Cast", expr |-> e, typed |-> typed]
StructAccess(e, field) == [kind |-> "StructAccess", expr |-> e, field |-> field]
ArrayAccess(e, index) == [kind |-> "ArrayAccess", expr |-> e, index |-> index]

ArithOps == {"Add", "Sub", "Mul", "Div"}
CmpOps == {"LessThan", "LessEqual", "GreaterThan", "GreaterEqual", "Equal", "NotEqual"}

\* The instructions of the backend for the driver's operations.
Amd64_declare(name, size) == << [mn |-> ".comm", args |-> <<Raw(name), Raw(ToString(size))>>] >>
Amd64_negate(r) == << Ins1("neg", Raw(r.qword)) >>
Amd64_not(r1, r2) == << Ins2("cmp", Raw(r1.qword), Raw("0")), Ins1("sete", Raw(r2.byte)) >>
Amd64_add(r1, r2) == << Ins2("add", Raw(r1.qword), Raw(r2.qword)) >>
Amd64_sub(r1, r2) == << Ins2("sub", Raw(r1.qword), Raw(r2.qword)) >>
Amd64_mul(r1, r2) == << Ins2("imul", Raw(r1.qword), Raw(r2.qword)) >>

Amd64_cmp(r1, r2, cmp) ==
    LET ins == CASE cmp = "LessThan" -> "setl"
                 [] cmp = "LessEqual" -> "setle"
                 [] cmp = "GreaterThan" -> "setg"
                 [] cmp = "GreaterEqual" -> "setge"
                 [] cmp = "Equal" -> "sete"
                 [] cmp = "NotEqual" -> "setne"
    IN << Ins2("cmp", Raw(r1.qword), Raw(r2.qword)), Ins1(ins, Raw(r1.byte)) >>

\* arch.load and arch.save of the driver's backend interface.
arch_load(r, item) == << Ins2("load", Raw(r.qword), item) >>
arch_save(label, r) == << Ins2("save", Raw(label), Raw(r.qword)) >>

\* The instruction of a binary operation on r1 and r2.
arch_op(op, r1, r2) ==
    CASE op = "Add" -> Amd64_add(r1, r2)
      [] op = "Sub" -> Amd64_sub(r1, r2)
      [] op = "Mul" -> Amd64_mul(r1, r2)
      [] op = "Div" -> div(r1, r2)
      [] op \in CmpOps -> Amd64_cmp(r1, r2, op)

Ev(ev, what) == [ev |-> ev, what |-> what]
Emits(text) == [i \in 1..Len(text) |-> Ev("emit", text[i])]

EvalState(u) == [used |-> u, text |-> <<>>, trace |-> <<>>]

Done(st, register) ==
    [ok |-> TRUE, register |-> register, err |-> "",
     used |-> st.used, text |-> st.text, trace |-> st.trace]

Failed(st, err) ==
    [ok |-> FALSE, register |-> Raw(err), err |-> err,
     used |-> st.used, text |-> st.text, trace |-> st.trace]

\* self.text_section.push_str(...)
Emit(st, text) ==
    [used |-> st.used, text |-> st.text \o text, trace |-> st.trace \o Emits(text)]

\* The state a result carries.
After(a) == [used |-> a.used, text |-> a.text, trace |-> a.trace]

\* CodeGen::load
CodeGen_load(item, st) ==
    LET a == RegisterAllocator_alloc(st.used)
    IN IF ~a.ok
       THEN Failed(st, "Allocator")
       ELSE Done(Emit([st EXCEPT !.used = a.used,
                                 !.trace = Append(@, Ev("alloc", a.register))],
                      arch_load(a.register, item)),
                 a.register)

\* self.registers.free(r)? and what follows it on success
Free(st, r, register) ==
    LET f == RegisterAllocator_free(st.used, r)
    IN IF ~f.ok
       THEN Failed(st, "Allocator")
       ELSE Done([st EXCEPT !.used = f.used, !.trace = Append(@, Ev("free", r))],
                 register)

\* CodeGen::not
CodeGen_not(r2, st) ==
    LET a == RegisterAllocator_alloc(st.used)
    IN IF ~a.ok
       THEN Failed(st, "Allocator")
       ELSE Free(Emit([st EXCEPT !.used = a.used,
                                 !.trace = Append(@, Ev("alloc", a.register))],
                      Amd64_not(a.register, r2)),
                 r2, a.register)

\* add, sub, mul, div, cmp without self.registers.free(r2).
CodeGen_op_keeps_r2(op, r1, r2, st) ==
    Done(Emit(st, arch_op(op, r1, r2)), bin_result(r1, r2))

\* CodeGen::add, sub, mul, div, cmp: the operation, then free(r2).
CodeGen_op(op, r1, r2, st) ==
    Free(Emit(st, arch_op(op, r1, r2)), bin_freed(r1, r2), bin_result(r1, r2))

RECURSIVE CodeGen_expr(_, _)

\* CodeGen::bin_expr
CodeGen_bin_expr(e, st) ==
    IF e.op = "Assign"
    THEN IF e.left.kind = "Ident"
         THEN LET right == CodeGen_expr(e.right, st)
              IN IF ~right.ok
                 THEN right
                 ELSE Done(Emit(After(right), arch_save(e.left.name, right.register)),
                           right.register)
         ELSE Failed(st, "Assign")
    ELSE LET left == CodeGen_expr(e.left, st)
             right == CodeGen_expr(e.right, After(left))
         IN IF ~left.ok
            THEN left
            ELSE IF ~right.ok
                 THEN right
                 ELSE CodeGen_op(e.op, left.register, right.register, After(right))

\* CodeGen::unary_expr
CodeGen_unary_expr(e, st) ==
    LET r == CodeGen_expr(e.expr, st)
    IN IF ~r.ok
       THEN r
       ELSE IF e.op = "Negative"
            THEN Done(Emit(After(r), Amd64_negate(r.register)), r.register)
            ELSE CodeGen_not(r.register, After(r))

\* CodeGen::expr
CodeGen_expr(e, st) ==
    CASE e.kind = "Binary" -> CodeGen_bin_expr(e, st)
      [] e.kind = "Lit" -> CodeGen_load(e, st)
      [] e.kind = "Unary" -> CodeGen_unary_expr(e, st)
      [] e.kind = "Ident" -> CodeGen_load(e, st)
      [] e.kind = "Cast" ->
            IF e.expr.kind = "Lit" /\ ~e.typed
            THEN Failed(st, "Type")
            ELSE CodeGen_expr(e.expr, st)

(***************************************************************************)
(* One expression compiled on a backend with any number of registers       *)
(* handed out before.                                                      *)
(***************************************************************************)
\* Right operands nested n deep: a + (a + (a + ...)), n + 1 loads held at once.
RECURSIVE RightNested(_)
RightNested(n) ==
    IF n = 0 THEN Ident("a") ELSE Binary("Add", Ident("a"), RightNested(n - 1))

\* Operands of the binary expressions compiled.
Operands ==
    { Lit(1), Ident("a"),
      Binary("Add", Lit(1), Ident("b")),
      Unary("Not", Ident("a")),
      Binary("Sub", Ident("a"), Binary("Mul", Lit(2), Lit(3))) }

\* Left-hand sides of the assignments compiled.
Targets ==
    { Ident("a"),
      Unary("Deref", Ident("p")),
      StructAccess(Ident("s"), "x"),
      ArrayAccess(Ident("v"), Lit(0)),
      Lit(1),
      Unary("Negative", Ident("a")),
      Binary("Add", Ident("a"), Lit(1)),
      Cast(Ident("a"), TRUE) }

Exprs ==
    {Binary(op, l, r) : op \in ArithOps \cup CmpOps, l \in Operands, r \in Operands}
        \cup {Binary("Assign", l, r) : l \in Targets, r \in {Lit(1), Binary("Add", Ident("a"), Lit(1))}}
        \cup {RightNested(RegisterAllocator_len), Cast(Lit(1), FALSE), Unary("Negative", Lit(1))}
        \cup Operands
        \cup {Cast(e, TRUE) : e \in Operands}
        \cup {Unary(op, e) : op \in {"Negative", "Not"}, e \in Operands}

\* CodeGen::expr on e.
ExprCall ==
    /\ pc = "idle"
    /\ buf = <<>>
    /\ \E e \in Exprs :
          LET r == CodeGen_expr(e, EvalState(used))
          IN /\ used' = r.used
             /\ buf' = buf \o r.text
             /\ call' = [op |-> "expr", expr |-> e, result |-> r,
                         before |-> Len(buf), usedBefore |-> used]
             /\ pc' = IF r.ok THEN "expr_ok" ELSE "expr_err"
    /\ UNCHANGED <<ml, regs, tc, table, ops, cg>>

InitExpr == InitBackend /\ InitMachine /\ InitChecker /\ InitTable

NextExpr ==
    \/ AllocCall
    \/ ExprCall

SpecExpr == InitExpr /\ [][NextExpr]_vars

\* An arithmetic or comparison expression has been compiled without error.
BinCompiled ==
    /\ call.op = "expr"
    /\ call.expr.kind = "Binary"
    /\ call.expr.op \in ArithOps \cup CmpOps
    /\ call.result.ok

\* The evaluations of its operands: the left one first, the right one on
\* the state the left one left.
LeftEval == CodeGen_expr(call.expr.left, EvalState(call.usedBefore))
RightEval == CodeGen_expr(call.expr.right, After(LeftEval))

\* The first instruction of each operation, on accumulator a and operand b.
FirstOf(op, a, b) ==
    CASE op = "Add" -> Ins2("add", Raw(a.qword), Raw(b.qword))
      [] op = "Sub" -> Ins2("sub", Raw(a.qword), Raw(b.qword))
      [] op = "Mul" -> Ins2("imul", Raw(a.qword), Raw(b.qword))
      [] op = "Div" -> Ins2("mov", Raw("rax"), Raw(a.qword))
      [] op \in CmpOps -> Ins2("cmp", Raw(a.qword), Raw(b.qword))

(***************************************************************************)
(* C20. A binary arithmetic or comparison expression evaluates its left    *)
(* operand, then its right operand, emits the operation with the left      *)
(* operand's register as accumulator, returns the left operand's register  *)
(* and frees exactly one register, the right operand's, after the          *)
(* operation has been emitted.                                             *)
(***************************************************************************)
C20_LeftAccumulatesRightFreed ==
    BinCompiled =>
        LET res == call.result
            nl == Len(LeftEval.trace)
            nr == Len(RightEval.trace)
            tail == SubSeq(res.trace, nr + 1, Len(res.trace))
        IN /\ LeftEval.ok /\ RightEval.ok
           /\ SubSeq(res.trace, 1, nl) = LeftEval.trace
           /\ SubSeq(res.trace, 1, nr) = RightEval.trace
           /\ Len(tail) >= 2
           /\ tail[1] = Ev("emit", FirstOf(call.expr.op, LeftEval.register, RightEval.register))
           /\ \A i \in 1..(Len(tail) - 1) : tail[i].ev = "emit"
           /\ tail[Len(tail)] = Ev("free", RightEval.register)
           /\ res.register = LeftEval.register
           /\ Live(res.used) = Live(RightEval.used) \ {RightEval.register}
           /\ LeftEval.register \in Live(res.used)

\* a - 2 * 3 divided by !a on a backend with three registers handed out.
C20_Witness ==
    /\ BinCompiled
    /\ call.expr.op = "Div"
    /\ call.expr.left = Binary("Sub", Ident("a"), Binary("Mul", Lit(2), Lit(3)))
    /\ call.expr.right = Unary("Not", Ident("a"))
    /\ Cardinality(call.usedBefore) = 3
    /\ call.result.register.qword = "r12"
    /\ Cardinality(used) = 4

\* An assignment has been compiled, on a backend with registers to spare.
AssignCompiled ==
    /\ call.op = "expr"
    /\ call.expr.kind = "Binary"
    /\ call.expr.op = "Assign"
    /\ Cardinality(call.usedBefore) + 2 <= RegisterAllocator_len

\* The forms of an assignable location: an identifier, a dereference, a
\* field access, an array access.
Assignable(e) ==
    \/ e.kind \in {"Ident", "StructAccess", "ArrayAccess"}
    \/ e.kind = "Unary" /\ e.op = "Deref"

(***************************************************************************)
(* C14. An assignment compiles exactly when its left-hand side is an       *)
(* assignable location: an identifier, a dereference, a field access or an *)
(* array access is accepted as the target, and any other form on the left  *)
(* fails with the invalid-assign-target error.                             *)
(***************************************************************************)
C14_AssignableTargetsAccepted ==
    AssignCompiled =>
        IF Assignable(call.expr.left)
        THEN call.result.ok
        ELSE ~call.result.ok /\ call.result.err = "Assign"

\* The assignment *p = 1 has failed with the invalid-assign-target error
\* and has emitted nothing.
C14_Witness ==
    /\ AssignCompiled
    /\ call.expr = Binary("Assign", Unary("Deref", Ident("p")), Lit(1))
    /\ ~call.result.ok
    /\ call.result.err = "Assign"
    /\ Emitted = <<>>
    /\ used = call.usedBefore

\* Of the forms on the left of an assignment the driver accepts the
\* identifier alone; every other form fails with the invalid-assign-target
\* error before anything is evaluated.
C14_OnlyIdentAccepted ==
    AssignCompiled =>
        IF call.expr.left.kind = "Ident"
        THEN call.result.ok
        ELSE /\ ~call.result.ok /\ call.result.err = "Assign"
             /\ Emitted = <<>> /\ used = call.usedBefore

(***************************************************************************)
(* CodeGen::compile: the output file is created, the statements are        *)
(* compiled in order into the sections, and the sections are written.      *)
(***************************************************************************)
VarDecl(name, size) == [kind |-> "VarDecl", name |-> name, size |-> size]
StmtExpr(e) == [kind |-> "Expr", expr |-> e]

\* The statements programs are made of: two declarations, two expression
\* statements that compile, and one that fails for each error of the driver.
Stmts ==
    { VarDecl("a", 1), VarDecl("b", 8),
      StmtExpr(Binary("Add", Ident("a"), Lit(1))),
      StmtExpr(Binary("Assign", Ident("a"), Lit(2))),
      StmtExpr(Binary("Assign", Lit(1), Lit(2))),
      StmtExpr(RightNested(RegisterAllocator_len)),
      StmtExpr(Cast(Lit(1), FALSE)) }

Declared(program) == {i \in 1..Len(program) : program[i].kind = "VarDecl"}

\* The program of n expression statements `1;`.
Literals(n) == [i \in 1..n |-> StmtExpr(Lit(1))]

\* Programs as the parser hands them over: no variable declared twice. One
\* of them has a statement more than the pool has registers.
Programs ==
    {p \in UNION {[1..n -> Stmts] : n \in 0..MaxStmts} :
        \A i, j \in Declared(p) : p[i].name = p[j].name => i = j}
        \cup {Literals(RegisterAllocator_len + 1)}

\* The sections of CodeGen::new.
bss_section_new == << Ins1("section", Raw(".bss")) >>
data_section_new == << Ins1("section", Raw(".data")) >>
text_section_new ==
    << Ins1("section", Raw(".text")), Ins1("global", Raw("main")),
       [mn |-> "main:", args |-> <<>>] >>

\* CodeGen::declare putting the declaration into the text section.
CodeGen_declare_in_text(c, var) ==
    [c EXCEPT !.text = @ \o Amd64_declare(var.name, var.size)]

\* CodeGen::declare
CodeGen_declare(c, var) ==
    [c EXCEPT !.bss = @ \o Amd64_declare(var.name, var.size)]

\* CodeGen::stmt on the driver c with allocator state u: [ok, err, c, used]
CodeGen_stmt(stmt, c, u) ==
    IF stmt.kind = "VarDecl"
    THEN [ok |-> TRUE, err |-> "", c |-> CodeGen_declare(c, stmt), used |-> u]
    ELSE LET r == CodeGen_expr(stmt.expr, EvalState(u))
         IN [ok |-> r.ok, err |-> r.err,
             c |-> [c EXCEPT !.text = @ \o r.text], used |-> r.used]

\* The `?` on self.stmt(&stmt) never leaving the loop.
stmt_failed_never(r) == FALSE

\* The `?` on self.stmt(&stmt): an Err leaves compile.
stmt_failed(r) == ~r.ok

\* compile returning Err after it has written what the sections hold.
compile_err_flushed(c, err) ==
    [c EXCEPT !.result = err, !.file = @ \o c.bss \o c.text]

\* compile returning Err(err): nothing more is done.
compile_err(c, err) == [c EXCEPT !.result = err]

\* The six writes of compile, in order.
Writes(c) ==
    << c.bss, << Ins0("\n") >>, c.data, << Ins0("\n") >>, c.text, << Ins0("ret") >> >>

RECURSIVE Concat(_)
Concat(ss) == IF ss = <<>> THEN <<>> ELSE ss[1] \o Concat(SubSeq(ss, 2, Len(ss)))

\* compile up to the loop: File::create, which leaves an empty file or
\* panics.
Compile ==
    /\ pc = "idle"
    /\ used = {}
    /\ cg = NoCompile
    /\ \E program \in Programs : \E created \in BOOLEAN :
          IF created
          THEN /\ cg' = [result |-> "running", program |-> program, next |-> 1,
                         compiled |-> <<>>,
                         bss |-> bss_section_new, data |-> data_section_new,
                         text |-> text_section_new, file |-> <<>>]
               /\ pc' = "compile"
          ELSE /\ cg' = [result |-> "panic", program |-> program]
               /\ pc' = "abort"
    /\ UNCHANGED <<buf, used, call, ml, regs, tc, table, ops>>

\* One turn of the loop: self.stmt(&stmt)?
CompileStmt ==
    /\ pc = "compile"
    /\ cg.next <= Len(cg.program)
    /\ LET r == CodeGen_stmt(cg.program[cg.next], cg, used)
           c == [r.c EXCEPT !.compiled = Append(@, cg.next)]
       IN /\ used' = r.used
          /\ IF stmt_failed(r)
             THEN /\ cg' = compile_err(c, r.err)
                  /\ pc' = "compile_err"
             ELSE /\ cg' = [c EXCEPT !.next = @ + 1]
                  /\ pc' = "compile"
    /\ UNCHANGED <<buf, call, ml, regs, tc, table, ops>>

\* After the loop: the writes, of which the first k succeed; a write that
\* fails panics.
CompileWrite ==
    /\ pc = "compile"
    /\ cg.next > Len(cg.program)
    /\ \E k \in 0..Len(Writes(cg)) :
          /\ cg' = [cg EXCEPT !.file = @ \o Concat(SubSeq(Writes(cg), 1, k)),
                              !.result = IF k = Len(Writes(cg)) THEN "Ok" ELSE "panic"]
          /\ pc' = IF k = Len(Writes(cg)) THEN "compile_ok" ELSE "abort"
    /\ UNCHANGED <<buf, used, call, ml, regs, tc, table, ops>>

InitCompile == InitBackend /\ InitMachine /\ InitChecker /\ InitTable

NextCompile ==
    \/ Compile
    \/ CompileStmt
    \/ CompileWrite

SpecCompile == InitCompile /\ [][NextCompile]_vars

\* compile is in its loop or has returned.
Compiling == pc \in {"compile", "compile_err", "compile_ok"}

\* The driver and the allocator after the first k statements of p, each
\* compiled on what the one before left.
RECURSIVE Replay(_, _)
Replay(p, k) ==
    IF k = 0
    THEN [c |-> [bss |-> bss_section_new, data |-> data_section_new,
                 text |-> text_section_new],
          used |-> {}, ok |-> TRUE, err |-> ""]
    ELSE LET before == Replay(p, k - 1)
         IN \* also after a statement that failed, on what it left
            CASE before.ok -> CodeGen_stmt(p[k], before.c, before.used)
              [] ~before.ok -> CodeGen_stmt(p[k], before.c, before.used)

\* The statements of p that yield an error when their turn comes.
Failing(p) == {k \in 1..Len(p) : ~Replay(p, k).ok}

(***************************************************************************)
(* C11. compile takes the statements in program order and stops at the     *)
(* first one that yields an error: it returns that error, and no statement *)
(* after the failing one is compiled, so none of its declarations or       *)
(* instructions is generated and no further error is collected.            *)
(***************************************************************************)
C11_FirstErrorReturned ==
    Compiling =>
        LET p == cg.program
            n == Len(cg.compiled)
        IN /\ cg.compiled = [i \in 1..n |-> i]
           /\ \A k \in Failing(p) : n <= k
           /\ pc = "compile_err" =>
                 /\ Failing(p) # {}
                 /\ n = Min(Failing(p))
                 /\ cg.result = Replay(p, n).err
                 /\ cg.bss = Replay(p, n).c.bss
                 /\ cg.text = Replay(p, n).c.text
           /\ pc = "compile_ok" =>
                 /\ Failing(p) = {}
                 /\ n = Len(p)
                 /\ cg.result = "Ok"

\* The first statement is 1 = 2; a declaration and a cast to a type that
\* does not exist follow it. compile has returned the Assign error with
\* no declaration in the bss section.
C11_Witness ==
    /\ pc = "compile_err"
    /\ cg.program = << StmtExpr(Binary("Assign", Lit(1), Lit(2))),
                       VarDecl("b", 8),
                       StmtExpr(Cast(Lit(1), FALSE)) >>
    /\ cg.result = "Assign"
    /\ cg.compiled = << 1 >>
    /\ cg.bss = bss_section_new

(***************************************************************************)
(* C12. When compile returns an error the output file holds none of the    *)
(* generated sections: bss, data and text are written only after every     *)
(* statement has compiled, so the file is a complete artifact or holds no  *)
(* section at all.                                                         *)
(***************************************************************************)
C12_NoPartialArtifact ==
    /\ pc \in {"compile", "compile_err"} => cg.file = <<>>
    /\ pc = "compile_ok" =>
          /\ Len(cg.compiled) = Len(cg.program)
          /\ cg.file = cg.bss \o << Ins0("\n") >> \o cg.data \o << Ins0("\n") >>
                          \o cg.text \o << Ins0("ret") >>

\* compile has returned an error after a declaration and instructions had
\* been generated; the file is empty.
C12_Witness ==
    /\ pc = "compile_err"
    /\ Len(cg.bss) > Len(bss_section_new)
    /\ Len(cg.text) > Len(text_section_new)
    /\ cg.file = <<>>

\* The lines of the file that are declarations, and those that are code.
IsDeclaration(line) == line.mn = ".comm"
IsCode(line) == line.mn \notin {".comm", "section", "global", "main:", "\n"}
At(f, mn) == {i \in 1..Len(f) : f[i].mn = mn}

\* The declarations of p in the order of its statements.
RECURSIVE Declarations(_)
Declarations(p) ==
    IF p = <<>> THEN <<>>
    ELSE (IF p[1].kind = "VarDecl" THEN Amd64_declare(p[1].name, p[1].size) ELSE <<>>)
             \o Declarations(SubSeq(p, 2, Len(p)))

(***************************************************************************)
(* C13. However declarations and expression statements are interleaved in  *)
(* the program, the artifact has its regions in a fixed order: the         *)
(* declarations, one per declared variable and in declaration order, come  *)
(* before every instruction, and the code begins at the label main.        *)
(***************************************************************************)
C13_RegionsInOrder ==
    pc = "compile_ok" =>
        LET f == cg.file
        IN /\ SelectSeq(f, IsDeclaration) = Declarations(cg.program)
           /\ \A d, i \in 1..Len(f) : IsDeclaration(f[d]) /\ IsCode(f[i]) => d < i
           /\ Cardinality(At(f, "main:")) = 1
           /\ \A m \in At(f, "main:") : \A i \in 1..Len(f) : IsCode(f[i]) <=> m < i
           /\ \A b \in At(f, "section") : f[b].args[1].text = ".bss" =>
                 \A d \in 1..Len(f) : IsDeclaration(f[d]) => b < d
           /\ [i \in 1..3 |-> f[SeqOfSet(At(f, "section"))[i]].args[1].text]
                 = << ".bss", ".data", ".text" >>

\* An artifact of a program that declares b between two expression
\* statements: the declaration is line 2 of the file.
C13_Witness ==
    /\ pc = "compile_ok"
    /\ cg.program = << StmtExpr(Binary("Add", Ident("a"), Lit(1))),
                       VarDecl("b", 8),
                       StmtExpr(Binary("Assign", Ident("a"), Lit(2))) >>
    /\ cg.file[2] = Amd64_declare("b", 8)[1]
    /\ cg.file[Len(cg.file)] = Ins0("ret")

(***************************************************************************)
(* The type table and the type checker's checks of it. A type table is a   *)
(* sequence of structs [name, fields], a field is [name, type].            *)
(***************************************************************************)
TyBool == [kind |-> "Bool"]
TyU8 == [kind |-> "U8"]
TyI32 == [kind |-> "I32"]
TyCustom(name) == [kind |-> "Custom", name |-> name]
TyPtr(inner) == [kind |-> "Ptr", inner |-> inner]
TyUsize == [kind |-> "Usize"]

TypeStruct(name, fields) == [name |-> name, fields |-> fields]

\* TypeTable::find
TypeTable_find(tt, type_name) ==
    LET at == {i \in 1..Len(tt) : tt[i].name = type_name}
    IN IF at = {} THEN None ELSE Some(tt[Min(at)])

\* TypeChecker::check_type
check_type(type_, tt) ==
    IF type_.kind = "Custom" /\ TypeTable_find(tt, type_.name) = None
    THEN "Nonexistent"
    ELSE "Ok"

\* The fields of all structs in the order check_type_table visits them.
RECURSIVE FieldsInOrder(_)
FieldsInOrder(tt) ==
    IF tt = <<>> THEN <<>>
    ELSE [i \in 1..Len(tt[1].fields) |->
              [struct |-> tt[1].name, type |-> tt[1].fields[i].type]]
             \o FieldsInOrder(SubSeq(tt, 2, Len(tt)))

\* One field in check_type_table: check_type(type_)?, then the panic when
\* the field has the type of its own struct.
check_field(f, tt) ==
    IF check_type(f.type, tt) # "Ok"
    THEN check_type(f.type, tt)
    ELSE IF f.type = TyCustom(f.struct) THEN "panic" ELSE "Ok"

\* TypeChecker::check_type_table: the outcome of the first field that does
\* not pass.
check_type_table(tt) ==
    LET fs == FieldsInOrder(tt)
        bad == {i \in 1..Len(fs) : check_field(fs[i], tt) # "Ok"}
    IN IF bad = {} THEN "Ok" ELSE check_field(fs[Min(bad)], tt)

\* What a size computation that ran out of stack yields in place of a size.
Overflow == -1

\* Type::size and TypeStruct::size: the sum of the sizes of the fields; a
\* named type has the size of the struct found for it. depth counts the
\* calls still possible on the stack.
RECURSIVE Type_size(_, _, _)
TypeStruct_size(struct, tt, depth) ==
    LET sizes == [i \in 1..Len(struct.fields) |-> Type_size(struct.fields[i].type, tt, depth)]
    IN IF \E i \in 1..Len(sizes) : sizes[i] = Overflow
       THEN Overflow
       ELSE LET RECURSIVE Sum(_)
                Sum(i) == IF i = 0 THEN 0 ELSE sizes[i] + Sum(i - 1)
            IN Sum(Len(sizes))

Type_size(type_, tt, depth) ==
    CASE type_.kind \in {"Bool", "U8"} -> 1
      [] type_.kind = "I32" -> 4
      [] type_.kind = "Ptr" -> 8
      [] type_.kind = "Custom" ->
            IF depth = 0 THEN Overflow
            ELSE TypeStruct_size(TypeTable_find(tt, type_.name)[1], tt, depth - 1)

\* The names of structs and the types of fields the tables are made of:
\* "C" is defined in no table.
StructNames == {"A", "B"}
FieldTypes == {TyU8, TyCustom("A"), TyCustom("B"), TyCustom("C"), TyPtr(TyCustom("A"))}

FieldLists ==
    UNION {[1..n -> {[name |-> "x", type |-> t] : t \in FieldTypes}] : n \in 0..MaxFields}

\* Type tables with each struct defined once.
TypeTables ==
    {tt \in UNION {[1..n -> {TypeStruct(s, fl) : s \in StructNames, fl \in FieldLists}] :
                      n \in 0..Cardinality(StructNames)} :
        \A i, j \in 1..Len(tt) : tt[i].name = tt[j].name => i = j}

\* Where a check leaves the checker: Ok or an Err is returned, a panic
\* aborts the process.
AfterCheck(r) ==
    CASE r = "Ok" -> "checked"
      [] r = "panic" -> "abort"
      [] OTHER -> "check_err"

\* check_type_table on a type table.
CheckTypeTable ==
    /\ pc = "idle"
    /\ \E tt \in TypeTables :
          LET r == check_type_table(tt)
          IN /\ call' = [op |-> "check_type_table", type_table |-> tt, result |-> r]
             /\ pc' = AfterCheck(r)
    /\ UNCHANGED <<buf, used, ml, regs, tc, table, ops, cg>>

\* Size computation on a table the checker has let through: the size of
\* each struct, with one stack frame more than there are structs.
StructSizes ==
    /\ pc = "checked"
    /\ call.op = "check_type_table"
    /\ LET tt == call.type_table
           sizes == [i \in 1..Len(tt) |-> TypeStruct_size(tt[i], tt, Len(tt))]
       IN /\ call' = [op |-> "size", type_table |-> tt, sizes |-> sizes]
          /\ pc' = IF \E i \in 1..Len(tt) : sizes[i] = Overflow THEN "abort" ELSE "sized"
    /\ UNCHANGED <<buf, used, ml, regs, tc, table, ops, cg>>

\* An operand of a check: an identifier of a type, declared or not.
Var(type_, declared) == [kind |-> "Ident", type |-> type_, declared |-> declared]

\* Type::int
Type_int(type_) == type_.kind \in {"U8", "I32", "Usize"}

\* Type::cast: a struct cannot be cast to a scalar.
Type_cast(from, to) ==
    IF from.kind = "Custom" /\ to.kind # "Custom" THEN "Cast" ELSE "Ok"

\* check_expr on an identifier
check_ident(e) == IF e.declared THEN "Ok" ELSE "NotFound"

\* TypeChecker::check_assign with an identifier on the right
check_assign(left_type, right) ==
    IF check_ident(right) # "Ok" THEN check_ident(right)
    ELSE IF left_type = right.type THEN "Ok" ELSE "panic"

LogicalOps == {"LogicalAnd", "LogicalOr"}

\* TypeChecker::check_bin with identifiers on both sides
check_bin(op, left, right) ==
    IF check_ident(left) # "Ok" THEN check_ident(left)
    ELSE IF check_ident(right) # "Ok" THEN check_ident(right)
    ELSE IF op \in LogicalOps
         THEN IF left.type = TyBool /\ right.type = TyBool THEN "Ok" ELSE "panic"
         ELSE IF Type_int(left.type) /\ Type_int(right.type) /\ left.type = right.type
              THEN "Ok" ELSE "panic"

\* check_expr on a cast of an identifier
check_cast(e, to, tt) ==
    IF check_type(to, tt) # "Ok" THEN check_type(to, tt)
    ELSE IF check_ident(e) # "Ok" THEN check_ident(e)
    ELSE Type_cast(e.type, to)

Scalars == {TyBool, TyU8, TyI32}
Vars == {Var(t, d) : t \in Scalars, d \in BOOLEAN}


CheckAssign ==
    /\ pc = "idle"
    /\ \E left_type \in Scalars, right \in Vars :
          LET r == check_assign(left_type, right)
          IN /\ call' = [op |-> "check_assign", left_type |-> left_type,
                         right |-> right, result |-> r]
             /\ pc' = AfterCheck(r)
    /\ UNCHANGED <<buf, used, ml, regs, tc, table, ops, cg>>

CheckBin ==
    /\ pc = "idle"
    /\ \E op \in {"Add", "Mul", "Equal", "LogicalAnd"}, left \in Vars, right \in Vars :
          LET r == check_bin(op, left, right)
          IN /\ call' = [op |-> "check_bin", bin |-> op, left |-> left,
                         right |-> right, result |-> r]
             /\ pc' = AfterCheck(r)
    /\ UNCHANGED <<buf, used, ml, regs, tc, table, ops, cg>>

CheckCast ==
    /\ pc = "idle"
    /\ \E from \in Scalars \cup {TyCustom("A")}, to \in Scalars \cup {TyCustom("A"), TyCustom("C")} :
          LET tt == << TypeStruct("A", << [name |-> "x", type |-> TyU8] >>) >>
              r == check_cast(Var(from, TRUE), to, tt)
          IN /\ call' = [op |-> "check_cast", from |-> from, to |-> to, result |-> r]
             /\ pc' = AfterCheck(r)
    /\ UNCHANGED <<buf, used, ml, regs, tc, table, ops, cg>>

(***************************************************************************)
(* check_bin for Add and Sub: the arms of the two matches, in their order. *)
(* An arm whose pattern is an alternative p | q with a guard is taken when *)
(* one of the alternatives matches and the guard holds for its bindings.   *)
(***************************************************************************)
\* An operand: an identifier of a type, or an expression made of integer
\* literals only, which has the type of its literals.
Opd(type_, lit) ==
    [kind |-> IF lit THEN "Lit" ELSE "Ident", type |-> type_, declared |-> TRUE]

\* Expr::int_lit_only
int_lit_only(e) == e.kind = "Lit"

\* The width in bytes that orders the integer types.
Type_width(type_) ==
    CASE type_.kind = "U8" -> 1
      [] type_.kind = "I32" -> 4
      [] type_.kind = "Usize" -> 8

\* Type::common_type: the wider of two integer types.
common_type(a, b) == IF Type_width(a) >= Type_width(b) THEN a ELSE b

\* type_ >= other, for integer types.
Type_ge(a, b) == Type_width(a) >= Type_width(b)

\* ((_, Type::Ptr(_)), (expr, offset))
\*     if Expr::int_lit_only(expr) || offset == Type::UInt(UintType::Usize)
ptr_arm(ptr, expr) ==
    /\ ptr.type.kind = "Ptr"
    /\ int_lit_only(expr) \/ expr.type = TyUsize

\* ((_, type_), (expr, expr_type)) if type_.int() && Expr::int_lit_only(expr)
\*     && type_ >= Type::common_type(type_.clone(), expr_type.clone())
lit_arm(of, expr) ==
    /\ Type_int(of.type)
    /\ int_lit_only(expr)
    /\ Type_ge(of.type, common_type(of.type, expr.type))

\* ((_, lhs), (_, rhs)) if lhs.int() && rhs.int() && lhs == rhs
int_arm(left, right) ==
    Type_int(left.type) /\ Type_int(right.type) /\ left.type = right.type

\* BinOp::Add with its first arm matching a pointer on the left only.
check_bin_add_left(left, right) ==
    IF ptr_arm(left, right) THEN "Ok"
    ELSE IF lit_arm(left, right) \/ lit_arm(right, left) THEN "Ok"
    ELSE IF int_arm(left, right) THEN "Ok"
    ELSE "panic"

\* BinOp::Add
check_bin_add(left, right) ==
    IF ptr_arm(left, right) \/ ptr_arm(right, left) THEN "Ok"
    ELSE IF lit_arm(left, right) \/ lit_arm(right, left) THEN "Ok"
    ELSE IF int_arm(left, right) THEN "Ok"
    ELSE "panic"

\* BinOp::Sub
check_bin_sub(left, right) ==
    IF left.type.kind = "Ptr" /\ right.type.kind = "Ptr" /\ left.type.inner = right.type.inner
    THEN "Ok"
    ELSE IF ptr_arm(left, right) THEN "Ok"
    ELSE IF lit_arm(left, right) \/ lit_arm(right, left) THEN "Ok"
    ELSE IF int_arm(left, right) THEN "Ok"
    ELSE "panic"

\* The operands of the additions and subtractions checked.
ArithOperands ==
    {Opd(t, FALSE) : t \in {TyBool, TyU8, TyI32, TyUsize, TyPtr(TyU8), TyPtr(TyI32)}}
        \cup {Opd(t, TRUE) : t \in {TyU8, TyI32, TyUsize}}

\* check_bin on an addition or a subtraction.
CheckArith ==
    /\ pc = "idle"
    /\ \E op \in {"Add", "Sub"}, left \in ArithOperands, right \in ArithOperands :
          LET r == IF op = "Add" THEN check_bin_add(left, right)
                                 ELSE check_bin_sub(left, right)
          IN /\ call' = [op |-> "check_arith", bin |-> op, left |-> left,
                         right |-> right, result |-> r]
             /\ pc' = AfterCheck(r)
    /\ UNCHANGED <<buf, used, ml, regs, tc, table, ops, cg>>

(***************************************************************************)
(* check_assign with an array type on the left and an array expression on  *)
(* the right.                                                              *)
(***************************************************************************)
TyArr(inner, len) == [kind |-> "Arr", inner |-> inner, len |-> len]

\* Expr::Array
ArrayExpr(items) == [kind |-> "Array", items |-> items]

\* check_expr on an array expression: its items have one type between them.
check_expr_array(e) ==
    IF Cardinality({e.items[i].type : i \in 1..Len(e.items)}) # 1 THEN "panic" ELSE "Ok"

\* check_assign to a type that is neither a pointer nor an array.
check_assign_item(left_type, right) ==
    IF check_ident(right) # "Ok" THEN check_ident(right)
    ELSE IF Type_int(left_type) /\ int_lit_only(right)
         THEN IF Type_ge(left_type, common_type(left_type, right.type)) THEN "Ok" ELSE "panic"
         ELSE IF left_type = right.type THEN "Ok" ELSE "panic"

\* check_assign to an array type: check_expr(right)?, then check_assign of
\* each item to left_type.inner(), the first that fails ending the loop.
check_assign_array(left_type, right) ==
    IF check_expr_array(right) # "Ok" THEN check_expr_array(right)
    ELSE LET bad == {i \in 1..Len(right.items) :
                        check_assign_item(left_type.inner, right.items[i]) # "Ok"}
         IN IF bad = {} THEN "Ok"
            ELSE check_assign_item(left_type.inner, right.items[Min(bad)])

\* The items of the array expressions checked.
ArrayItems == {Opd(TyU8, FALSE), Opd(TyI32, FALSE), Opd(TyU8, TRUE)}

ArrayExprs == {ArrayExpr(items) : items \in UNION {[1..n -> ArrayItems] : n \in 0..MaxItems}}

\* check_assign of an array expression to an array of 0..MaxItems elements.
CheckAssignArray ==
    /\ pc = "idle"
    /\ \E inner \in {TyU8, TyI32}, len \in 0..MaxItems, right \in ArrayExprs :
          LET left_type == TyArr(inner, len)
              r == check_assign_array(left_type, right)
          IN /\ call' = [op |-> "check_assign_array", left_type |-> left_type,
                         right |-> right, result |-> r]
             /\ pc' = AfterCheck(r)
    /\ UNCHANGED <<buf, used, ml, regs, tc, table, ops, cg>>

(***************************************************************************)
(* TypeStruct::offset, get_field_type and contains.                        *)
(***************************************************************************)
\* The fields of struct in front of the first one called name; all of them
\* when there is none (the loop of offset breaks at the first match).
fields_before(struct, name) ==
    LET at == {i \in 1..Len(struct.fields) : struct.fields[i].name = name}
    IN IF at = {} THEN Len(struct.fields) ELSE Min(at) - 1

\* offset adding the size of the field it looks for as well.
TypeStruct_offset_past(struct, name, tt, depth) ==
    LET n == IF fields_before(struct, name) < Len(struct.fields)
             THEN fields_before(struct, name) + 1
             ELSE Len(struct.fields)
    IN SumSeq([i \in 1..n |-> Type_size(struct.fields[i].type, tt, depth)])

\* TypeStruct::offset
TypeStruct_offset(struct, name, tt, depth) ==
    LET n == fields_before(struct, name)
    IN SumSeq([i \in 1..n |-> Type_size(struct.fields[i].type, tt, depth)])

\* TypeStruct::contains
TypeStruct_contains(struct, field) ==
    \E i \in 1..Len(struct.fields) : struct.fields[i].name = field

\* TypeStruct::get_field_type
TypeStruct_get_field_type(struct, field) ==
    IF TypeStruct_contains(struct, field)
    THEN Some(struct.fields[fields_before(struct, field) + 1].type)
    ELSE None

\* The type table the structs measured are resolved in: A has 5 bytes.
Measured == << TypeStruct("A", << [name |-> "x", type |-> TyI32], [name |-> "y", type |-> TyU8] >>) >>

FieldNames == {"x", "y", "z"}

\* Structs of up to MaxFields fields, with names that may repeat.
Structs ==
    {TypeStruct("S", fl) :
        fl \in UNION {[1..n -> {[name |-> f, type |-> t] :
                                   f \in FieldNames, t \in {TyU8, TyI32, TyPtr(TyU8), TyCustom("A")}}] :
                         n \in 0..MaxFields}}

\* offset, size, contains and get_field_type of a struct, for a name that
\* is a field of it or is not.
StructOffset ==
    /\ pc = "idle"
    /\ \E struct \in Structs, name \in FieldNames \cup {"w"} :
          /\ call' = [op |-> "offset", struct |-> struct, name |-> name,
                      offset |-> TypeStruct_offset(struct, name, Measured, 1),
                      size |-> TypeStruct_size(struct, Measured, 1),
                      contains |-> TypeStruct_contains(struct, name),
                      field_type |-> TypeStruct_get_field_type(struct, name)]
          /\ pc' = "sized"
    /\ UNCHANGED <<buf, used, ml, regs, tc, table, ops, cg>>

InitTypes == InitBackend /\ InitMachine /\ InitChecker /\ InitTable

NextTypes ==
    \/ CheckTypeTable
    \/ StructSizes
    \/ CheckAssign
    \/ CheckBin
    \/ CheckCast
    \/ CheckArith
    \/ CheckAssignArray
    \/ StructOffset

SpecTypes == InitTypes /\ [][NextTypes]_vars

\* Struct s holds a value of struct t: a field of s has the type named t.
Holds(tt, s, t) ==
    \E i \in 1..Len(tt) :
        tt[i].name = s /\ \E k \in 1..Len(tt[i].fields) : tt[i].fields[k].type = TyCustom(t)

\* t is reached from s by n or fewer steps of Holds, at least one.
RECURSIVE Reaches(_, _, _, _)
Reaches(tt, s, t, n) ==
    /\ n > 0
    /\ \/ Holds(tt, s, t)
       \/ \E m \in StructNames : Holds(tt, s, m) /\ Reaches(tt, m, t, n - 1)

\* Some struct of the table contains itself by value, directly or through
\* other structs.
ContainsItself(tt) ==
    \E i \in 1..Len(tt) : Reaches(tt, tt[i].name, tt[i].name, Len(tt))

(***************************************************************************)
(* C15. The type checker rejects every type table in which a struct        *)
(* contains itself by value, directly or through a chain of other structs, *)
(* so that no struct of infinite size reaches size computation.            *)
(***************************************************************************)
C15_RecursiveStructsRejected ==
    /\ call.op = "check_type_table" /\ ContainsItself(call.type_table) =>
          call.result # "Ok"
    /\ call.op = "size" => \A i \in 1..Len(call.sizes) : call.sizes[i] # Overflow

\* A holds a B and B holds an A: the table has passed the check and the
\* size computation has run out of stack.
C15_Witness ==
    /\ call.op = "size"
    /\ call.type_table = << TypeStruct("A", << [name |-> "x", type |-> TyCustom("B")] >>),
                            TypeStruct("B", << [name |-> "x", type |-> TyCustom("A")] >>) >>
    /\ call.sizes[1] = Overflow
    /\ pc = "abort"

\* A struct that has a field of its own type is not let through, and a
\* table that is let through has no struct of that kind.
C15_DirectRecursionStopped ==
    call.op = "check_type_table" =>
        ((\E s \in StructNames : Holds(call.type_table, s, s)) => call.result # "Ok")

\* The type-system violation of a check, if it has one.
TypeViolation ==
    CASE call.op = "check_assign" -> call.right.declared /\ call.left_type # call.right.type
      [] call.op = "check_bin" ->
            /\ call.left.declared /\ call.right.declared
            /\ IF call.bin \in LogicalOps
               THEN ~(call.left.type = TyBool /\ call.right.type = TyBool)
               ELSE ~(Type_int(call.left.type) /\ call.left.type = call.right.type)
      [] call.op = "check_cast" ->
            \/ call.to = TyCustom("C")
            \/ call.from.kind = "Custom" /\ call.to.kind # "Custom"
      [] call.op = "check_type_table" ->
            \/ \E s \in StructNames : Holds(call.type_table, s, "C")
            \/ \E s \in StructNames : Holds(call.type_table, s, s)
      [] OTHER -> FALSE

Errors == {"Nonexistent", "NotFound", "Cast", "Mismatched", "Recursive"}

(***************************************************************************)
(* C17. Every type-system violation the type checker finds (mismatched     *)
(* types in an assignment or a binary operation, a type that does not      *)
(* exist, a recursive struct, an invalid cast) comes back as an error      *)
(* value, never as an abort of the process.                                *)
(***************************************************************************)
C17_ViolationsReturned ==
    TypeViolation => call.result \in Errors /\ pc # "abort"

\* An assignment of an i32 variable to a bool has aborted the checker.
C17_Witness ==
    /\ call.op = "check_assign"
    /\ call.left_type = TyBool /\ call.right = Var(TyI32, TRUE)
    /\ call.result = "panic"
    /\ pc = "abort"

\* The violations that do come back as error values: a type that does not
\* exist and an invalid cast.
C17_ReturnedKinds ==
    /\ call.op = "check_cast" /\ TypeViolation => call.result \in {"Nonexistent", "Cast"}
    /\ call.op \in {"check_assign", "check_bin"} /\ TypeViolation => call.result = "panic"

\* The registers a local-to-local move holds: those handed out since the
\* move was called.
Scratch == used \ call.usedBefore

(***************************************************************************)
(* C18. When a local-to-local move has completed with Ok, both scratch     *)
(* registers it allocated are back with the allocator: for every size the  *)
(* allocated registers after the move are those before it, and during the  *)
(* copy the move never holds more than two scratch registers.              *)
(***************************************************************************)
C18_ScratchReturned ==
    call.op = "mov_local_local" =>
        /\ call.usedBefore \subseteq used
        /\ Cardinality(Scratch) <= 2
        /\ pc = "ml_copy" => Scratch = {i \in used : Amd64_pool[i] \in {ml.r, ml.r_tmp}}
        /\ call.result = "ok" => used = call.usedBefore

\* A move of 11 bytes (chunks of 8, 2 and 1) has completed on a backend
\* that had three registers handed out; the same three are handed out now.
C18_Witness ==
    /\ call.op = "mov_local_local"
    /\ call.result = "ok"
    /\ call.src.size = 11
    /\ Len(Emitted) = 1 + 2 * 3
    /\ Cardinality(call.usedBefore) = 3
    /\ used = call.usedBefore

\* The pool registers of the machine other than the left operand's.
OtherRegisters == {n \in MachineRegs \ {"rax"} : n # call.r1.qword}

(***************************************************************************)
(* C19. The division sequence guards rdx and rax against clobbering: the   *)
(* divide instruction reads the right operand with the value it had before *)
(* the sequence, also when the right operand is in rdx, and every pool     *)
(* register other than the left operand's, rdx with another live value     *)
(* included, has after div the value it had before.                        *)
(***************************************************************************)
C19_DividePairGuarded ==
    call.op = "div" =>
        /\ (Running /\ Fetch.mn = "idiv") =>
              regs.file[Fetch.args[1].text] = call.right
        /\ (DivDone /\ ~regs.fault) =>
              \A n \in OtherRegisters : regs.file[n] = call.file[n]

\* 6 / 2 with the right operand in rdx has stopped at a divide error: cqo
\* had set rdx to 0 before idiv read it.
C19_Witness ==
    /\ DivDone
    /\ call.op = "div"
    /\ call.r1.qword = "rcx" /\ call.r2.qword = "rdx"
    /\ call.left = 6 /\ call.right = 2
    /\ regs.fault
    /\ regs.file["rdx"] = 0

\* Registers outside the dividend pair keep their values, as operands and
\* as bystanders; rdx does not: as right operand it is overwritten before
\* the divide, as bystander it holds the remainder afterwards.
C19_OutsideThePairKept ==
    call.op = "div" =>
        /\ (Running /\ Fetch.mn = "idiv" /\ call.r2.qword # "rdx") =>
              regs.file[Fetch.args[1].text] = call.right
        /\ (Running /\ Fetch.mn = "idiv" /\ call.r2.qword = "rdx") =>
              regs.file["rdx"] = IF call.left < 0 THEN -1 ELSE 0
        /\ (DivDone /\ ~regs.fault) =>
              \A n \in OtherRegisters \ {"rdx"} : regs.file[n] = call.file[n]

(***************************************************************************)
(* Amd64::mov over the kinds of its operands: the match on the source, and *)
(* inside mov_local the match on the destination. Two of the arms are      *)
(* todo!(), which panics when reached.                                     *)
(***************************************************************************)
\* Amd64::mov: the function the source's kind selects.
mov(src) ==
    CASE src.kind = "global" -> "mov_global"
      [] src.kind = "local" -> "mov_local"
      [] src.kind = "param" -> "mov_param"
      [] src.kind = "register" -> "mov_register"
      [] src.kind = "lit" -> "mov_literal"

\* Amd64::mov_global: todo!() for every destination.
mov_global(src, dest) == "panic"

\* Amd64::mov_local: the arm the destination's kind selects.
mov_local(dest) ==
    CASE dest.kind = "local" -> "chunks"
      [] dest.kind = "global" -> "panic"
      [] dest.kind = "register" -> "mov_impl"

MovGlobals == {LocGlobal("bar", s, o) : s \in Sizes, o \in {None, Some(5)}}

\* mov with a global source: mov_global.
MovGlobalCall ==
    /\ pc = "idle"
    /\ Len(buf) < MaxBuf
    /\ \E src \in MovGlobals, dest \in MovDestinations, signed \in BOOLEAN :
          /\ mov(src) = "mov_global"
          /\ call' = [op |-> "mov_global", src |-> src, dest |-> dest,
                      signed |-> signed, before |-> Len(buf), usedBefore |-> used,
                      result |-> mov_global(src, dest)]
    /\ pc' = "abort"
    /\ UNCHANGED <<buf, used, ml, regs, tc, table, ops, cg>>

\* mov with a local source and a global destination: the todo!() arm of
\* mov_local.
MovLocalGlobalCall ==
    /\ pc = "idle"
    /\ Len(buf) < MaxBuf
    /\ \E src \in MovLocals, dest \in MovDestinations, signed \in BOOLEAN :
          /\ mov(src) = "mov_local"
          /\ mov_local(dest) = "panic"
          /\ call' = [op |-> "mov_local_global", src |-> src, dest |-> dest,
                      signed |-> signed, before |-> Len(buf), usedBefore |-> used,
                      result |-> "panic"]
    /\ pc' = "abort"
    /\ UNCHANGED <<buf, used, ml, regs, tc, table, ops, cg>>

InitKinds == InitBackend /\ InitMachine /\ InitChecker /\ InitTable

\* One disjunct per arm of mov and of mov_local, on a backend whose pool is
\* in any fill state.
NextKinds ==
    \/ AllocCall
    \/ MovGlobalCall
    \/ MovLocalCall
    \/ MovLocalStep
    \/ MovLocalGlobalCall
    \/ MovLocalRegisterCall
    \/ MovParamCall(0..5, MovDestinations)
    \/ MovRegisterCall
    \/ MovLiteralCall

SpecKinds == InitKinds /\ [][NextKinds]_vars

MovCalls ==
    {"mov_global", "mov_local_local", "mov_local_global", "mov_local",
     "mov_param", "mov_register", "mov_literal"}

\* What the last mov returned: the moves of one instruction return Ok(()).
Outcome == IF "result" \in DOMAIN call THEN call.result ELSE "ok"

\* The pair of kinds of the last mov.
Kinds == <<call.src.kind, call.dest.kind>>

(***************************************************************************)
(* C16. mov handles every pair of a source kind (register, local, global,  *)
(* parameter, literal) and a destination kind (register, local, global):   *)
(* it returns Ok or an ArchError, and no pair makes it abort.              *)
(***************************************************************************)
C16_EveryPairHandled ==
    /\ pc # "abort"
    /\ call.op \in MovCalls => Outcome \in {"running", "ok", "RanOutOfRegisters"}

\* mov from a global to a register has reached todo!().
C16_Witness ==
    /\ call.op = "mov_global"
    /\ Kinds = <<"global", "register">>
    /\ Outcome = "panic"
    /\ pc = "abort"
    /\ buf = <<>>

\* The pairs with a global source, and local to global, abort; the other
\* eleven pairs return.
C16_AbortsAreTheGlobalArms ==
    call.op \in MovCalls =>
        (Outcome = "panic" <=>
            \/ Kinds[1] = "global"
            \/ Kinds = <<"local", "global">>)

\* An expression has been compiled without error.
ExprCompiled == call.op = "expr" /\ call.result.ok

\* The pool entries of a register.
EntriesOf(register) == {i \in 1..RegisterAllocator_len : Amd64_pool[i] = register}

(***************************************************************************)
(* C21. After an expression tree (literals, identifiers, negate and not,   *)
(* binary operators, assignment, cast) has compiled successfully, one      *)
(* register more is allocated than before the call: the registers held     *)
(* before, and the returned result register, and no operand temporary.     *)
(***************************************************************************)
C21_OnlyResultLive ==
    ExprCompiled =>
        /\ Cardinality(used) = Cardinality(call.usedBefore) + 1
        /\ used = call.usedBefore \cup EntriesOf(call.result.register)
        /\ used = call.result.used

\* !(a - 2 * 3), whose evaluation held three registers at once, has left
\* one register allocated next to the five held before.
C21_Witness ==
    /\ ExprCompiled
    /\ call.expr = Unary("Not", Binary("Sub", Ident("a"), Binary("Mul", Lit(2), Lit(3))))
    /\ Cardinality(call.usedBefore) = 5
    /\ Cardinality(used) = 6
    /\ Len(Emitted) = 7

\* An addition or subtraction with a pointer among its operands has been
\* checked.
PointerArith ==
    /\ call.op = "check_arith"
    /\ call.left.type.kind = "Ptr" \/ call.right.type.kind = "Ptr"

\* An integer that may be added to a pointer: an expression of literals
\* only, or a value of the pointer-sized unsigned type.
PointerOffset(e) == Type_int(e.type) /\ (int_lit_only(e) \/ e.type = TyUsize)

\* The shapes of pointer arithmetic that are legal.
LegalPointerArith(op, l, r) ==
    \/ l.type.kind = "Ptr" /\ PointerOffset(r)
    \/ op = "Add" /\ PointerOffset(l) /\ r.type.kind = "Ptr"
    \/ op = "Sub" /\ l.type.kind = "Ptr" /\ r.type.kind = "Ptr" /\ l.type.inner = r.type.inner

(***************************************************************************)
(* C22. For Add and Sub with a pointer operand check_bin accepts exactly   *)
(* pointer + integer, integer + pointer and pointer - integer, the integer *)
(* being made of literals only or of the pointer-sized unsigned type, and  *)
(* pointer - pointer with identical element types; every other             *)
(* combination is rejected, and Add accepts l + r exactly when it accepts  *)
(* r + l.                                                                  *)
(***************************************************************************)
C22_PointerArithmeticShapes ==
    PointerArith =>
        /\ call.result = "Ok" <=> LegalPointerArith(call.bin, call.left, call.right)
        /\ call.result # "Ok" => pc = "abort"
        /\ call.bin = "Add" => call.result = check_bin_add(call.right, call.left)

\* usize + u8* has been accepted.
C22_Witness ==
    /\ PointerArith
    /\ call.bin = "Add"
    /\ call.left = Opd(TyUsize, FALSE)
    /\ call.right = Opd(TyPtr(TyU8), FALSE)
    /\ call.result = "Ok"
    /\ pc = "checked"

\* Every item of the array expression may be assigned to the element type.
ItemsAssignable(left_type, right) ==
    \A i \in 1..Len(right.items) : check_assign_item(left_type.inner, right.items[i]) = "Ok"

(***************************************************************************)
(* C23. check_assign accepts an array expression for a destination of an   *)
(* array type only when every element may be assigned to the destination's *)
(* element type and the expression has as many elements as the array type  *)
(* has; an array expression of another length is rejected.                 *)
(***************************************************************************)
C23_ArrayShapeChecked ==
    (call.op = "check_assign_array" /\ call.result = "Ok") =>
        /\ ItemsAssignable(call.left_type, call.right)
        /\ Len(call.right.items) = call.left_type.len

\* An array expression of two u8 values has been accepted for a u8 array
\* of three elements.
C23_Witness ==
    /\ call.op = "check_assign_array"
    /\ call.left_type = TyArr(TyU8, 3)
    /\ call.right = ArrayExpr(<< Opd(TyU8, FALSE), Opd(TyU8, FALSE) >>)
    /\ call.result = "Ok"
    /\ pc = "checked"

\* The elements are checked, the length is not: an array expression is
\* accepted exactly when it has an element, its elements have one type
\* between them and each may be assigned to the element type.
C23_ElementsChecked ==
    call.op = "check_assign_array" =>
        (call.result = "Ok" <=>
            /\ Len(call.right.items) > 0
            /\ \A i, j \in 1..Len(call.right.items) :
                  call.right.items[i].type = call.right.items[j].type
            /\ ItemsAssignable(call.left_type, call.right))

\* The expression statements among the first n statements of p.
ExprStmts(p, n) == {i \in 1..n : p[i].kind = "Expr"}

\* Statement k of p compiles on a backend with no register handed out.
FitsOnItsOwn(p, k) ==
    CodeGen_stmt(p[k], [bss |-> <<>>, data |-> <<>>, text |-> <<>>], {}).ok

(***************************************************************************)
(* C24. At every statement boundary reached by compile no register is      *)
(* allocated: the result register of an expression statement is released   *)
(* when the statement ends, so a program of any number of expression       *)
(* statements, each fitting in the pool of 12 registers on its own,        *)
(* compiles without an allocator error.                                    *)
(***************************************************************************)
C24_NoRegisterAcrossStatements ==
    /\ pc \in {"compile", "compile_ok"} => used = {}
    /\ (pc = "compile_err" /\ cg.result = "Allocator") =>
          ~FitsOnItsOwn(cg.program, Len(cg.compiled))

\* Thirteen statements `1;`: the first twelve have left their result
\* registers allocated and the thirteenth has failed for want of one.
C24_Witness ==
    /\ pc = "compile_err"
    /\ cg.program = Literals(RegisterAllocator_len + 1)
    /\ cg.result = "Allocator"
    /\ Len(cg.compiled) = RegisterAllocator_len + 1
    /\ Cardinality(used) = RegisterAllocator_len
    /\ FitsOnItsOwn(cg.program, Len(cg.compiled))

\* Each expression statement that has compiled holds one register from
\* then on.
C24_OneRegisterPerStatement ==
    pc \in {"compile", "compile_ok"} =>
        Cardinality(used) = Cardinality(ExprStmts(cg.program, Len(cg.compiled)))

\* Store i of the copy writes inside the destination, bytes being counted
\* from the destination's offset.
StoreConfined(i) ==
    /\ ChunkTo(i) >= 0
    /\ ChunkTo(i) + ChunkStore(i).args[1].size <= call.dest.size

(***************************************************************************)
(* C25. A move between locals never writes outside its destination: for    *)
(* every source size and destination size the bytes stored lie in          *)
(* [destination offset, destination offset + destination size), also when  *)
(* the source is larger than the destination.                              *)
(***************************************************************************)
C25_StoresInsideDestination ==
    call.op = "mov_local_local" => \A i \in 1..ChunkCount : StoreConfined(i)

\* A source of 8 bytes moved to a destination of 4: one store of 8 bytes
\* at the destination's offset.
C25_Witness ==
    /\ call.op = "mov_local_local"
    /\ call.result = "ok"
    /\ call.src.size = 8
    /\ call.dest.size = 4
    /\ ChunkCount = 1
    /\ ChunkStore(1).args[1] = LocLocal(call.dest.offset, 8)

\* The stores are sized by the source alone: each is at the destination's
\* offset and no wider than the first chunk of the source, so they stay
\* inside a destination that holds that chunk.
C25_StoresSizedBySource ==
    call.op = "mov_local_local" =>
        \A i \in 1..ChunkCount :
            /\ ChunkTo(i) = 0
            /\ ChunkStore(i).args[1].size <= chunk_size_of(call.src.size)
            /\ call.dest.size >= chunk_size_of(call.src.size) => StoreConfined(i)

\* A logical not has been compiled without error.
NotCompiled ==
    /\ call.op = "expr"
    /\ call.expr.kind = "Unary"
    /\ call.expr.op = "Not"
    /\ call.result.ok

\* The evaluation of its operand, and what not did after it: an alloc, the
\* two instructions, a free.
OperandEval == CodeGen_expr(call.expr.expr, EvalState(call.usedBefore))
NotTrace ==
    SubSeq(call.result.trace, Len(OperandEval.trace) + 1, Len(call.result.trace))

(***************************************************************************)
(* C26. For a logical not the register the driver returns is the register  *)
(* the backend's sequence writes the boolean into, the register the        *)
(* sequence compares with zero is the one holding the operand's value, the *)
(* operand's register is freed only after the sequence has been emitted,   *)
(* and the fresh result register is not read before it is written.         *)
(***************************************************************************)
C26_NotReadsOperandWritesResult ==
    NotCompiled =>
        LET fresh == NotTrace[1].what
            cmp == NotTrace[2].what
            set == NotTrace[3].what
        IN /\ Len(NotTrace) = 4
           /\ NotTrace[1].ev = "alloc"
           /\ NotTrace[2].ev = "emit" /\ cmp.mn = "cmp"
           /\ NotTrace[3].ev = "emit" /\ set.mn = "sete"
           /\ NotTrace[4] = Ev("free", OperandEval.register)
           /\ call.result.register = fresh
           /\ set.args[1].text = call.result.register.byte
           /\ cmp.args[1].text = OperandEval.register.qword
           /\ cmp.args[1].text # fresh.qword

\* !a on a backend with no register handed out: a is loaded into r15, the
\* fresh r14 is compared with zero, the boolean is written into r15b, r15
\* is freed and r14 returned.
C26_Witness ==
    /\ NotCompiled
    /\ call.expr = Unary("Not", Ident("a"))
    /\ call.usedBefore = {}
    /\ OperandEval.register.qword = "r15"
    /\ call.result.register.qword = "r14"
    /\ Emitted[2] = Ins2("cmp", Raw("r14"), Raw("0"))
    /\ Emitted[3] = Ins1("sete", Raw("r15b"))
    /\ Live(used) = {call.result.register}

\* What is emitted: the fresh register is the one compared, the operand's
\* register the one written, and the operand's register is freed after the
\* two instructions.
C26_NotComparesFreshWritesOperand ==
    NotCompiled =>
        /\ Len(NotTrace) = 4
        /\ NotTrace[1] = Ev("alloc", call.result.register)
        /\ NotTrace[2] = Ev("emit", Ins2("cmp", Raw(call.result.register.qword), Raw("0")))
        /\ NotTrace[3] = Ev("emit", Ins1("sete", Raw(OperandEval.register.byte)))
        /\ NotTrace[4] = Ev("free", OperandEval.register)
        /\ call.result.register # OperandEval.register

\* The field names of a struct are pairwise distinct.
DistinctFields(struct) ==
    \A i, j \in 1..Len(struct.fields) :
        struct.fields[i].name = struct.fields[j].name => i = j

\* The size of field i of a struct, and the offset of the field by its name.
FieldSize(struct, i) == Type_size(struct.fields[i].type, Measured, 1)
FieldOffset(struct, i) == TypeStruct_offset(struct, struct.fields[i].name, Measured, 1)

(***************************************************************************)
(* C27. For a struct with pairwise distinct field names offset(field) is   *)
(* the sum of the sizes of the fields declared before it and size is the   *)
(* sum of all field sizes: the fields lie in disjoint contiguous byte      *)
(* ranges with offset(f) + size(f) <= size(struct). For a name that is not *)
(* a field, offset returns size(struct), outside every field, and signals  *)
(* no error.                                                               *)
(***************************************************************************)
C27_FieldsLaidOutInOrder ==
    (call.op = "offset" /\ DistinctFields(call.struct)) =>
        LET s == call.struct
            n == Len(s.fields)
        IN /\ call.size = SumSeq([i \in 1..n |-> FieldSize(s, i)])
           /\ \A i \in 1..n :
                 /\ FieldOffset(s, i) = SumSeq([k \in 1..(i - 1) |-> FieldSize(s, k)])
                 /\ FieldOffset(s, i) + FieldSize(s, i) <= call.size
                 /\ i < n => FieldOffset(s, i + 1) = FieldOffset(s, i) + FieldSize(s, i)
                 /\ s.fields[i].name = call.name =>
                       /\ call.offset = FieldOffset(s, i)
                       /\ call.contains
                       /\ call.field_type = Some(s.fields[i].type)
           /\ ~call.contains =>
                 /\ call.offset = call.size
                 /\ call.field_type = None
                 /\ \A i \in 1..n : call.offset >= FieldOffset(s, i) + FieldSize(s, i)

\* S { z: A, x: u8 } with A of 5 bytes: x is at offset 5 of 6.
C27_Witness ==
    /\ call.op = "offset"
    /\ call.struct = TypeStruct("S", << [name |-> "z", type |-> TyCustom("A")],
                                        [name |-> "x", type |-> TyU8] >>)
    /\ call.name = "x"
    /\ call.offset = 5
    /\ call.size = 6

=============================================================================
